---- MODULE Spec2Model ----
(***************************************************************************)
(* Result entities of the vectorgov SDK (models.py) and their payload      *)
(* serialisers (payload.py): XML knowledge package, JSON Schema wrapper,   *)
(* Anthropic tool schema, chat messages and prompt.                        *)
(*                                                                         *)
(* A Python str is a sequence of fragments (TLA+ strings).  Identifiers    *)
(* (chunk_id, span_id) are sequences of one-character fragments, so that   *)
(* splitting on "#" and percent-encoding are computed, not assumed.        *)
(* Scores are integers in units of 1/100.                                  *)
(***************************************************************************)
EXTENDS Integers, Sequences, FiniteSets, TLC

\* result: the result entity a call is made on; out: what the last call
\* returned or raised; _XML_CACHE: the module-level cache of payload.py;
\* calls: the calls made so far, each with its result, level and outcome.
VARIABLES result, out, _XML_CACHE, calls, response, heap, threads, http

vars == <<result, out, _XML_CACHE, calls, response, heap, threads, http>>

(***************************************************************************)
(* Bounds of the model.                                                    *)
(***************************************************************************)
MaxHits == 2
MaxExpanded == 2
MaxSiblings == 2
MaxGroupHits == 3
MaxCalls == 3
MaxThreads == 2
MaxRetries == 3

(***************************************************************************)
(* Python values.                                                          *)
(***************************************************************************)
PyNone == <<"<None>">>
NoInt == -1

Falsy(t) == t = PyNone \/ t = <<>>
Truthy(t) == ~Falsy(t)
OrElse(t, d) == IF Truthy(t) THEN t ELSE d

Return(v) == [status |-> "return", val |-> v]
ReturnNone == [status |-> "none"]
Raise(type, detail) == [status |-> "raise", exc |-> [type |-> type, detail |-> detail]]

RECURSIVE Concat(_)
Concat(ss) == IF ss = <<>> THEN <<>> ELSE Head(ss) \o Concat(Tail(ss))

RECURSIVE Join(_, _)
Join(sep, ss) ==
    IF ss = <<>> THEN <<>>
    ELSE IF Len(ss) = 1 THEN Head(ss)
    ELSE Head(ss) \o sep \o Join(sep, Tail(ss))

RECURSIVE Split(_, _)
Split(t, sep) ==
    IF \E i \in 1..Len(t) : t[i] = sep
    THEN LET i == CHOOSE k \in 1..Len(t) : t[k] = sep /\ \A j \in 1..(k - 1) : t[j] # sep
         IN  <<SubSeq(t, 1, i - 1)>> \o Split(SubSeq(t, i + 1, Len(t)), sep)
    ELSE <<t>>

Contains(seq, x) == \E i \in 1..Len(seq) : seq[i] = x
Range(seq) == {seq[i] : i \in 1..Len(seq)}
NoDuplicates(seq) == \A i, j \in 1..Len(seq) : seq[i] = seq[j] => i = j

SeqsUpTo(S, n) == UNION {[1..k -> S] : k \in 0..n}

(***************************************************************************)
(* Hit: one retrieved provision (also graph node, lookup match, parent     *)
(* and sibling).  DefaultHit holds the dataclass defaults.  is_mapping      *)
(* tells a raw mapping (dict) from an object: SearchResult.expanded_chunks *)
(* is declared list[dict], and attribute access on a dict raises           *)
(* AttributeError.                                                         *)
(***************************************************************************)
DefaultHit ==
    [text |-> <<"t">>, score |-> 0, chunk_id |-> PyNone,
     md_type |-> <<>>, md_number |-> <<>>, md_year |-> 0,
     md_device_type |-> PyNone, md_article |-> PyNone,
     md_paragraph |-> PyNone, md_item |-> PyNone,
     nota_especialista |-> PyNone, jurisprudencia_tcu |-> PyNone,
     acordao_tcu_key |-> PyNone, acordao_tcu_link |-> PyNone,
     page_number |-> NoInt, canonical_hash |-> PyNone, canonical_start |-> NoInt,
     origin_type |-> PyNone, origin_reference |-> PyNone,
     stitched_text |-> PyNone, pure_rerank_score |-> NoInt,
     span_id |-> PyNone, document_id |-> PyNone, device_type |-> PyNone,
     article_number |-> PyNone, hop |-> NoInt, frequency |-> NoInt,
     relacao |-> PyNone, is_current |-> FALSE, is_mapping |-> FALSE]

With(h, f, v) == [h EXCEPT ![f] = v]

(***************************************************************************)
(* Helpers of payload.py.                                                  *)
(***************************************************************************)
FirstIndex(t, c) ==
    IF \E i \in 1..Len(t) : t[i] = c
    THEN CHOOSE i \in 1..Len(t) : t[i] = c /\ \A j \in 1..(i - 1) : t[j] # c
    ELSE 0

_extract_span_id(chunk_id) ==
    IF Falsy(chunk_id) THEN <<>>
    ELSE IF FirstIndex(chunk_id, "#") > 0
         THEN SubSeq(chunk_id, FirstIndex(chunk_id, "#") + 1, Len(chunk_id))
         ELSE chunk_id

\* urllib.parse.quote(s, safe=''): unreserved characters are kept, every
\* other character becomes %XX.
\* Variant of QuoteChar that encodes nothing.
QuoteCharIdentity(c) == c

QuoteChar(c) ==
    CASE c = "#" -> "%23"
      [] c = "/" -> "%2F"
      [] c = " " -> "%20"
      [] c = "|" -> "%7C"
      [] OTHER -> c

quote(s) == [i \in 1..Len(s) |-> QuoteChar(s[i])]

EvidencePath == <<"/api/v1/evidence/">>

evidence_url(chunk_id) == EvidencePath \o quote(chunk_id)

(***************************************************************************)
(* _collect_ids: authorised span-IDs and evidence map, hits first, then    *)
(* expanded chunks / graph nodes.  The evidence map is an insertion        *)
(* ordered dict, kept as a sequence of <<span_id, url>> pairs (a key is    *)
(* written only when it is first appended to the ID list).                 *)
(***************************************************************************)
\* Variant of IdAdmitted without the membership test.
IdAdmittedNoDedup(authorized_ids, span_id) == Truthy(span_id)

IdAdmitted(authorized_ids, span_id) ==
    Truthy(span_id) /\ ~Contains(authorized_ids, span_id)

EvidenceAdmitted(with_evidence, chunk_id) ==
    with_evidence /\ Truthy(chunk_id)

\* Variant of CollectStep that puts a new ID in front of the list.
CollectStepPrepend(acc, span_id, chunk_id, with_evidence) ==
    IF Truthy(span_id) /\ ~Contains(acc.ids, span_id)
    THEN [acc EXCEPT !.ids = <<span_id>> \o @]
    ELSE acc

CollectStep(acc, span_id, chunk_id, with_evidence) ==
    IF IdAdmitted(acc.ids, span_id)
    THEN [acc EXCEPT !.ids = Append(@, span_id),
                     !.emap = IF EvidenceAdmitted(with_evidence, chunk_id)
                              THEN Append(@, <<span_id, evidence_url(chunk_id)>>)
                              ELSE @]
    ELSE acc

RECURSIVE CollectHits(_, _, _)
CollectHits(hits, acc, with_evidence) ==
    IF hits = <<>> THEN acc
    ELSE CollectHits(Tail(hits),
                     CollectStep(acc, _extract_span_id(Head(hits).chunk_id),
                                 Head(hits).chunk_id, with_evidence),
                     with_evidence)

RECURSIVE CollectExpanded(_, _, _)
CollectExpanded(expanded, acc, with_evidence) ==
    IF expanded = <<>> \/ acc.err # PyNone THEN acc
    ELSE IF Head(expanded).is_mapping
         THEN [acc EXCEPT !.err = <<"span_id">>]
         ELSE CollectExpanded(Tail(expanded),
                              CollectStep(acc, Head(expanded).span_id,
                                          Head(expanded).chunk_id, with_evidence),
                              with_evidence)

\* Variant of _collect_ids whose ID list is shared between calls (a mutable
\* default argument): it starts from the IDs of the hits of the first call.
IdsOfFirstCall ==
    IF calls # <<>> /\ "hits" \in DOMAIN calls[1].result
    THEN SelectSeq([i \in 1..Len(calls[1].result.hits) |->
                       _extract_span_id(calls[1].result.hits[i].chunk_id)], Truthy)
    ELSE <<>>

_collect_ids_shared_list(hits, expanded, with_evidence) ==
    CollectExpanded(expanded,
                    CollectHits(hits, [ids |-> IdsOfFirstCall, emap |-> <<>>, err |-> PyNone],
                                with_evidence),
                    with_evidence)

\* Returns [ids, emap, err]; err names the attribute whose access raised.
_collect_ids(hits, expanded, with_evidence) ==
    CollectExpanded(expanded,
                    CollectHits(hits, [ids |-> <<>>, emap |-> <<>>, err |-> PyNone],
                                with_evidence),
                    with_evidence)

_collect_authorized_ids(r) == _collect_ids(r.hits, r.expanded_chunks, TRUE)

_collect_authorized_ids_from_hits(hits, expanded) == _collect_ids(hits, expanded, FALSE)

_collect_authorized_ids_from_hits_with_evidence(hits, expanded) ==
    _collect_ids(hits, expanded, TRUE)

(***************************************************************************)
(* JSON Schema wrapper {name, strict, schema}.                             *)
(***************************************************************************)
SchemaName == "resposta_juridica_vectorgov"

SchemaBody(authorized_ids) ==
    [type |-> "object",
     properties |->
        [resposta_direta |-> [type |-> <<"string">>],
         fundamentacao |->
            [type |-> <<"array">>,
             items |->
                [type |-> "object",
                 properties |->
                    [afirmacao |-> [type |-> <<"string">>],
                     dispositivo_id |-> [type |-> <<"string">>, enum |-> authorized_ids],
                     citacao_formatada |-> [type |-> <<"string">>],
                     evidence_link |-> [type |-> <<"string", "null">>]],
                 required |-> <<"afirmacao", "dispositivo_id", "citacao_formatada">>,
                 additionalProperties |-> FALSE]],
         observacoes_praticas |-> [type |-> <<"string", "null">>],
         jurisprudencia_tcu |-> [type |-> <<"string", "null">>],
         dispositivos_nao_utilizados |->
            [type |-> <<"array">>,
             items |-> [type |-> <<"string">>, enum |-> authorized_ids]],
         informacao_insuficiente |-> [type |-> <<"boolean">>]],
     required |-> <<"resposta_direta", "fundamentacao", "informacao_insuficiente">>,
     additionalProperties |-> FALSE]

_build_schema_dict(authorized_ids) ==
    [name |-> SchemaName, strict |-> TRUE, schema |-> SchemaBody(authorized_ids)]

HasNoHits(r) == r.hits = <<>>

build_response_schema(r) ==
    IF HasNoHits(r) THEN ReturnNone
    ELSE LET c == _collect_authorized_ids(r)
         IN  IF c.err # PyNone THEN Raise("AttributeError", c.err)
             ELSE IF c.ids = <<>> THEN ReturnNone
             ELSE Return([name |-> SchemaName, strict |-> TRUE,
                          schema |-> SchemaBody(c.ids)])

ToolDescription == <<"Use APENAS as fontes listadas no enum de dispositivo_id.">>

AnthropicTool(wrapper) ==
    IF wrapper.status # "return" THEN wrapper
    ELSE Return([name |-> wrapper.val.name, description |-> ToolDescription,
                 input_schema |-> wrapper.val.schema])

build_anthropic_tool_schema(r) == AnthropicTool(build_response_schema(r))

HybridResult_to_response_schema(r) ==
    LET c == _collect_authorized_ids_from_hits(r.hits, r.graph_nodes)
    IN  IF c.ids = <<>> THEN ReturnNone ELSE Return(_build_schema_dict(c.ids))

HybridResult_to_anthropic_tool_schema(r) ==
    AnthropicTool(HybridResult_to_response_schema(r))

\* Variant of LookupParentAdmitted without the membership test.
LookupParentAdmittedNoDedup(r, ids) == r.parent # <<>>

\* match and parent are Optional[Hit]: <<>> is None, <<h>> is the Hit h.
LookupParentAdmitted(r, ids) == r.parent # <<>> /\ ~Contains(ids, r.parent[1].span_id)

RECURSIVE AppendNewSpans(_, _)
AppendNewSpans(ids, sibs) ==
    IF sibs = <<>> THEN ids
    ELSE AppendNewSpans(IF Contains(ids, Head(sibs).span_id) THEN ids
                        ELSE Append(ids, Head(sibs).span_id),
                        Tail(sibs))

LookupSchemaIds(r) ==
    LET a == IF r.match # <<>> THEN <<r.match[1].span_id>> ELSE <<>>
        b == IF LookupParentAdmitted(r, a) THEN Append(a, r.parent[1].span_id) ELSE a
    IN  AppendNewSpans(b, r.siblings)

LookupResult_to_response_schema(r) ==
    IF LookupSchemaIds(r) = <<>> THEN ReturnNone
    ELSE Return(_build_schema_dict(LookupSchemaIds(r)))

LookupResult_to_anthropic_tool_schema(r) ==
    AnthropicTool(LookupResult_to_response_schema(r))

to_response_schema(r) ==
    CASE r.kind = "search" -> build_response_schema(r)
      [] r.kind = "hybrid" -> HybridResult_to_response_schema(r)
      [] r.kind = "lookup" -> LookupResult_to_response_schema(r)

to_anthropic_tool_schema(r) ==
    CASE r.kind = "search" -> build_anthropic_tool_schema(r)
      [] r.kind = "hybrid" -> HybridResult_to_anthropic_tool_schema(r)
      [] r.kind = "lookup" -> LookupResult_to_anthropic_tool_schema(r)

(***************************************************************************)
(* Grouping, ordering, confidence.                                         *)
(***************************************************************************)
\* str.upper() on the document types of the model.
upper(t) ==
    [i \in 1..Len(t) |->
        CASE t[i] = "lei" -> "LEI"
          [] t[i] = "in" -> "IN"
          [] t[i] = "doc" -> "DOC"
          [] OTHER -> t[i]]

Digit(d) == CASE d = 0 -> "0" [] d = 1 -> "1" [] d = 2 -> "2" [] d = 3 -> "3"
              [] d = 4 -> "4" [] d = 5 -> "5" [] d = 6 -> "6" [] d = 7 -> "7"
              [] d = 8 -> "8" [] d = 9 -> "9"

RECURSIVE str_int(_)
str_int(n) == IF n < 10 THEN <<Digit(n)>> ELSE str_int(n \div 10) \o <<Digit(n % 10)>>

\* f"{x:.4f}" of a value given in units of 1/10000.
Fmt4(c) ==
    str_int(c \div 10000) \o <<".", Digit((c \div 1000) % 10), Digit((c \div 100) % 10),
                               Digit((c \div 10) % 10), Digit(c % 10)>>

\* Variant of SourceDocType that keeps the letter case.
SourceDocTypeAsWritten(h) == OrElse(h.md_type, <<"DOC">>)

SourceDocType(h) == upper(OrElse(h.md_type, <<"DOC">>))
SourceDocNum(h) == OrElse(h.md_number, <<"?">>)
SourceDocYear(h) == IF h.md_year # 0 THEN str_int(h.md_year) ELSE <<"?">>

\* key = f"{doc_type}|{doc_num}|{doc_year}", compared as a string.
RECURSIVE AsString(_)
AsString(t) == IF t = <<>> THEN "" ELSE Head(t) \o AsString(Tail(t))

SourceKey(h) ==
    AsString(SourceDocType(h) \o <<"|">> \o SourceDocNum(h) \o <<"|">> \o SourceDocYear(h))

GroupIndex(groups, key) ==
    IF \E i \in 1..Len(groups) : groups[i].key = key
    THEN CHOOSE i \in 1..Len(groups) : groups[i].key = key
    ELSE 0

NewGroup(h) ==
    [key |-> SourceKey(h), lei |-> SourceDocNum(h) \o <<"/">> \o SourceDocYear(h),
     tipo |-> SourceDocType(h), hits |-> <<>>]

\* Variant of GroupLoop that leaves out a hit equal to one already in its
\* group.
RECURSIVE GroupLoopSkipRepeated(_, _)
GroupLoopSkipRepeated(hits, groups) ==
    IF hits = <<>> THEN groups
    ELSE LET h == Head(hits)
             g1 == IF GroupIndex(groups, SourceKey(h)) = 0
                   THEN Append(groups, NewGroup(h)) ELSE groups
             i == GroupIndex(g1, SourceKey(h))
         IN  GroupLoopSkipRepeated(Tail(hits),
                                   IF Contains(g1[i].hits, h) THEN g1
                                   ELSE [g1 EXCEPT ![i].hits = Append(@, h)])

RECURSIVE GroupLoop(_, _)
GroupLoop(hits, groups) ==
    IF hits = <<>> THEN groups
    ELSE LET h == Head(hits)
             g1 == IF GroupIndex(groups, SourceKey(h)) = 0
                   THEN Append(groups, NewGroup(h)) ELSE groups
             i == GroupIndex(g1, SourceKey(h))
         IN  GroupLoop(Tail(hits), [g1 EXCEPT ![i].hits = Append(@, h)])

\* OrderedDict of groups, as the sequence of its values in insertion order.
_group_hits_by_source(hits) == GroupLoop(hits, <<>>)

\* Variant of SortKeyLess that compares the score only.
SortKeyLessScoreOnly(a, b) == a.score > b.score

\* Sort key (-score, canonical_start or +inf), compared as Python tuples.
SortKeyLess(a, b) ==
    \/ a.score > b.score
    \/ /\ a.score = b.score
       /\ a.canonical_start # NoInt
       /\ (b.canonical_start = NoInt \/ a.canonical_start < b.canonical_start)

\* sorted() is stable: an element goes after every element not greater than it.
RECURSIVE InsertSorted(_, _)
InsertSorted(sorted, h) ==
    IF sorted = <<>> THEN <<h>>
    ELSE IF SortKeyLess(h, Head(sorted)) THEN <<h>> \o sorted
    ELSE <<Head(sorted)>> \o InsertSorted(Tail(sorted), h)

RECURSIVE SortedHits(_)
SortedHits(hits) ==
    IF hits = <<>> THEN <<>>
    ELSE InsertSorted(SortedHits(SubSeq(hits, 1, Len(hits) - 1)), hits[Len(hits)])

RECURSIVE SumOf(_, _)
SumOf(hits, power) ==
    IF hits = <<>> THEN 0
    ELSE (IF power = 2 THEN Head(hits).score * Head(hits).score
          ELSE Head(hits).score * Head(hits).score * Head(hits).score)
         + SumOf(Tail(hits), power)

RoundHalfEven(p, q) ==
    LET n == p \div q
        rem == p % q
    IN  IF 2 * rem > q THEN n + 1
        ELSE IF 2 * rem = q THEN n + (n % 2)
        ELSE n

Min(a, b) == IF a < b THEN a ELSE b
Max(a, b) == IF a > b THEN a ELSE b

FewHits(hits) == Len(hits) < 2
\* Variant of TopHitStrong that counts a top score of exactly 0.9 as strong.
TopHitStrongFromNinety(hits) == hits[1].score >= 90

TopHitStrong(hits) == hits[1].score > 90

\* Confidence in units of 1/10000, computed on exact rationals p/q (the
\* code computes on binary floats and rounds to 4 decimals).
_calculate_confidence(r) ==
    IF r.hits = <<>> THEN 0
    ELSE IF SumOf(r.hits, 2) = 0 THEN 0
    ELSE LET p0 == 100 * SumOf(r.hits, 3)
             q0 == SumOf(r.hits, 2)
             p1 == IF FewHits(r.hits) THEN 4 * p0 ELSE p0
             q1 == IF FewHits(r.hits) THEN 5 * q0 ELSE q0
             p2 == IF TopHitStrong(r.hits) THEN Min(10000 * q1, p1 + 500 * q1) ELSE p1
         IN  RoundHalfEven(Min(10000 * q1, Max(0, p2)), q1)

(***************************************************************************)
(* XML tree (xml.etree.ElementTree): an element is [tag, attrib, kids,     *)
(* text]; attrib is the sequence of <<name, value>> in insertion order.    *)
(***************************************************************************)
Elem(tag, attrib, kids, text) == [tag |-> tag, attrib |-> attrib, kids |-> kids, text |-> text]
Leaf(tag, text) == Elem(tag, <<>>, <<>>, text)

\* cond -> <<x>>, else nothing: an attribute or a child that is set conditionally.
Opt(cond, x) == IF cond THEN <<x>> ELSE <<>>

Children(e, tag) == SelectSeq(e.kids, LAMBDA k : k.tag = tag)
HasChild(e, tag) == \E i \in 1..Len(e.kids) : e.kids[i].tag = tag
Child(e, tag) == Children(e, tag)[1]
HasAttr(e, name) == \E i \in 1..Len(e.attrib) : e.attrib[i][1] = name
Attr(e, name) == e.attrib[CHOOSE i \in 1..Len(e.attrib) : e.attrib[i][1] = name][2]

RECURSIVE MapSeq(_, _)
MapSeq(Op(_), seq) == IF seq = <<>> THEN <<>> ELSE <<Op(Head(seq))>> \o MapSeq(Op, Tail(seq))

lower_bool(b) == IF b THEN <<"true">> ELSE <<"false">>

(***************************************************************************)
(* Static instruction texts (one fragment per rule).                       *)
(***************************************************************************)
_INSTRUCOES_REGRAS ==
    << <<"Baseie sua resposta EXCLUSIVAMENTE nos dispositivos fornecidos">>,
       <<"Cite cada dispositivo usando: [Lei 14.133/2021, Art. 33, Inc. III]">>,
       <<"Se a informacao nao estiver nos dispositivos, diga que nao encontrou">>,
       <<"Quando houver notas_especialista, incorpore como observacao pratica.">>,
       <<"Quando houver jurisprudencia, cite como entendimento do TCU.">>,
       <<"Priorize dispositivos com score mais alto (aparecem primeiro).">>,
       <<"Use linguagem formal adequada ao contexto juridico-administrativo.">> >>

_PAPEL_TEXT == <<"Voce e um assistente especializado em legislacao brasileira">>

_ANTI_ALUCINACAO_REGRAS ==
    << [prioridade |-> <<"critica">>, texto |-> <<"NUNCA invente, extrapole ou cite dispositivos">>],
       [prioridade |-> <<"critica">>, texto |-> <<"NUNCA cite numeros de artigo que nao aparecam">>],
       [prioridade |-> <<"alta">>, texto |-> <<"Quando houver conflito aparente, cite ambos">>] >>

_FORMATO_CITACAO_REGRAS ==
    << <<"Cite dispositivos no formato: [Lei 14.133/2021, Art. 33, Inc. III]">>,
       <<"Para paragrafos: [Lei 14.133/2021, Art. 36, par. 2]">>,
       <<"Para normas infralegais: [IN 65/2021, Art. 4]">>,
       <<"Para jurisprudencia: [Acordao XXXX/YYYY-TCU-Plenario]">> >>

_ESTRUTURA_RESPOSTA_REGRAS ==
    << <<"Comece com uma resposta direta e objetiva a pergunta.">>,
       <<"Em seguida, apresente a fundamentacao legal com citacoes.">>,
       <<"Se houver notas de especialista, incorpore como observacao pratica.">>,
       <<"Se houver jurisprudencia, cite como entendimento do TCU.">>,
       <<"Use linguagem formal adequada ao contexto juridico-administrativo.">> >>

_MODO_GERACAO_DOC_REGRAS ==
    << <<"Para geracao de documentos, estruture a saida com secoes numeradas.">>,
       <<"Cada secao deve ter fundamentacao legal explicita.">>,
       <<"Inclua campos obrigatorios conforme a legislacao citada.">> >>

_FORMATO_OBRIGATORIO_TEXT == <<"Sua resposta DEVE seguir exatamente esta estrutura">>

_VERIFICACAO_FINAL_TEXT == <<"Antes de enviar sua resposta, verifique">>

WhitelistHeader == "Voce SO pode citar os seguintes IDs. Qualquer outro e alucinacao:\n"
LookupWhitelistHeader == "Voce SO pode citar os seguintes IDs:\n"

Regra(text) == Leaf("regra", text)
RegraPrioridade(rule) == Elem("regra", <<<<"prioridade", rule.prioridade>>>>, <<>>, rule.texto)

_build_instrucoes_element == Elem("instrucoes", <<>>, MapSeq(Regra, _INSTRUCOES_REGRAS), PyNone)

AntiAlucinacao == Elem("anti_alucinacao", <<>>, MapSeq(RegraPrioridade, _ANTI_ALUCINACAO_REGRAS), PyNone)

StaticSubsections ==
    << Leaf("papel", _PAPEL_TEXT),
       AntiAlucinacao,
       Elem("formato_citacao", <<>>, MapSeq(Regra, _FORMATO_CITACAO_REGRAS), PyNone),
       Elem("estrutura_resposta", <<>>, MapSeq(Regra, _ESTRUTURA_RESPOSTA_REGRAS), PyNone),
       Elem("modo_geracao_documento",
            <<<<"condition", <<"quando o usuario pedir geracao de documento">>>>>>,
            MapSeq(Regra, _MODO_GERACAO_DOC_REGRAS), PyNone) >>

\* ", ".join(ids) after the header line.
WhitelistText(header, ids) == <<header>> \o Join(<<", ">>, ids)

EvidenceLine(pair) == pair[1] \o <<" -> ">> \o pair[2]
MapaText(emap) == Join(<<"\n">>, MapSeq(EvidenceLine, emap))

WhitelistEmitted(authorized_ids) == authorized_ids # <<>>

\* <contrato_resposta> of the search and hybrid builders, from the collected
\* IDs c = [ids, emap].
ContratoResposta(c) ==
    Elem("contrato_resposta", <<>>,
         <<Leaf("formato_obrigatorio", _FORMATO_OBRIGATORIO_TEXT)>>
         \o Opt(WhitelistEmitted(c.ids),
                Leaf("dispositivos_autorizados", WhitelistText(WhitelistHeader, c.ids)))
         \o Opt(c.emap # <<>>, Leaf("mapa_evidencias", MapaText(c.emap)))
         \o <<Leaf("verificacao_final", _VERIFICACAO_FINAL_TEXT)>>,
         PyNone)

_build_contrato_resposta(r) == ContratoResposta(_collect_authorized_ids(r))

_build_instrucoes_completas_element(r) ==
    Elem("instrucoes_completas", <<>>,
         StaticSubsections \o <<_build_contrato_resposta(r)>>, PyNone)

_build_instrucoes_completas_for_hybrid(r) ==
    Elem("instrucoes_completas", <<>>,
         StaticSubsections
         \o <<ContratoResposta(
                _collect_authorized_ids_from_hits_with_evidence(r.hits, r.graph_nodes))>>,
         PyNone)

(***************************************************************************)
(* Data sections of the search builder.  A dict is a function from keys;   *)
(* None and {} are both the empty function.                                *)
(***************************************************************************)
EmptyDict == [k \in {} |-> PyNone]
DictTruthy(d) == DOMAIN d # {}
Get(d, k) == IF k \in DOMAIN d THEN d[k] ELSE PyNone

SearchInterpreted(r) ==
    IF DictTruthy(r.raw_response) /\ "query_interpretation" \in DOMAIN r.raw_response
    THEN IF "rewritten_query" \in DOMAIN r.raw_response["query_interpretation"]
         THEN r.raw_response["query_interpretation"]["rewritten_query"]
         ELSE r.query
    ELSE r.query

_build_consulta_element(r) ==
    Elem("consulta", <<>>,
         << Leaf("query_original", r.query),
            Leaf("query_interpretada", SearchInterpreted(r)),
            Leaf("confianca_global", Fmt4(_calculate_confidence(r))),
            Leaf("estrategia", r.mode) >>,
         PyNone)

_DEVICE_MAP(device_type) ==
    CASE device_type = <<"article">> -> <<"artigo">>
      [] device_type = <<"paragraph">> -> <<"paragrafo">>
      [] device_type = <<"inciso">> -> <<"inciso">>
      [] device_type = <<"alinea">> -> <<"alinea">>
      [] OTHER -> device_type

\* Variant of DispositivoTipo that looks at the article before the item.
DispositivoTipoArticleFirst(h) ==
    IF h.md_device_type = <<"article_consolidated">> THEN <<"artigo_consolidado">>
    ELSE IF Truthy(h.md_device_type) THEN _DEVICE_MAP(h.md_device_type)
    ELSE IF Truthy(h.md_article) THEN <<"artigo">>
    ELSE IF Truthy(h.md_paragraph) THEN <<"paragrafo">>
    ELSE IF Truthy(h.md_item) THEN <<"inciso">>
    ELSE <<"dispositivo">>

DispositivoTipo(h) ==
    IF h.md_device_type = <<"article_consolidated">> THEN <<"artigo_consolidado">>
    ELSE IF Truthy(h.md_device_type) THEN _DEVICE_MAP(h.md_device_type)
    ELSE IF Truthy(h.md_item) THEN <<"inciso">>
    ELSE IF Truthy(h.md_paragraph) THEN <<"paragrafo">>
    ELSE IF Truthy(h.md_article) THEN <<"artigo">>
    ELSE <<"dispositivo">>

_build_dispositivo_element(h) ==
    Elem("dispositivo",
         << <<"id", _extract_span_id(h.chunk_id)>>, <<"tipo", DispositivoTipo(h)>> >>
         \o Opt(Truthy(h.md_article), <<"artigo", h.md_article>>)
         \o << <<"score", IF h.md_device_type = <<"article_consolidated">>
                          THEN <<"consolidado">> ELSE Fmt4(100 * h.score)>> >>
         \o Opt(Truthy(h.chunk_id), <<"evidence_url", evidence_url(h.chunk_id)>>)
         \o Opt(h.pure_rerank_score # NoInt, <<"score_rerank", Fmt4(100 * h.pure_rerank_score)>>)
         \o Opt(Truthy(h.origin_type) /\ h.origin_type # <<"self">>,
                <<"origem", <<"referencia_cruzada">>>>)
         \o Opt(Truthy(h.origin_type) /\ h.origin_type # <<"self">> /\ Truthy(h.origin_reference),
                <<"origem_ref", h.origin_reference>>),
         <<>>,
         OrElse(h.stitched_text, OrElse(h.text, <<>>)))

FonteHits(group) == SortedHits(group.hits)

Fonte(group) ==
    Elem("fonte",
         << <<"lei", group.lei>>, <<"tipo", group.tipo>>, <<"relevancia", <<"direta">>>> >>,
         MapSeq(_build_dispositivo_element, FonteHits(group)), PyNone)

BaseNormativaEmitted(r) == r.hits # <<>>

\* Shared by _build_base_normativa_element and _build_hybrid_base_normativa_element.
_build_base_normativa_element(r) ==
    Opt(BaseNormativaEmitted(r),
        Elem("base_normativa", <<>>, MapSeq(Fonte, _group_hits_by_source(r.hits)), PyNone))

_build_hybrid_base_normativa_element(r) == _build_base_normativa_element(r)

py_str_int(n) == IF n = NoInt THEN <<"None">> ELSE str_int(n)

DispositivoRelacionado(ec) ==
    Elem("dispositivo_relacionado",
         << <<"id", OrElse(ec.span_id, <<>>)>>, <<"lei", OrElse(ec.document_id, <<>>)>>,
            <<"relacao", ec.relacao>>, <<"hop", py_str_int(ec.hop)>> >>,
         <<>>, OrElse(ec.text, <<>>))

_build_contexto_normativo_element(r) ==
    Elem("contexto_normativo", <<>>, MapSeq(DispositivoRelacionado, r.expanded_chunks), PyNone)

Nota(h) ==
    Elem("nota", <<<<"dispositivo_ref", _extract_span_id(h.chunk_id)>>>>, <<>>,
         h.nota_especialista)

\* Shared by _build_notas_especialista_element and _build_notas_especialista_for_hits.
_build_notas_especialista_for_hits(hits) ==
    LET notas == SelectSeq(hits, LAMBDA h : Truthy(h.nota_especialista))
    IN  Opt(notas # <<>>, Elem("notas_especialista", <<>>, MapSeq(Nota, notas), PyNone))

Acordao(h) ==
    Elem("acordao",
         <<<<"dispositivo_ref", _extract_span_id(h.chunk_id)>>>>
         \o Opt(Truthy(h.acordao_tcu_key), <<"chave", h.acordao_tcu_key>>)
         \o Opt(Truthy(h.acordao_tcu_link), <<"link", h.acordao_tcu_link>>),
         <<>>, h.jurisprudencia_tcu)

_build_jurisprudencia_for_hits(hits) ==
    LET juris == SelectSeq(hits, LAMBDA h : Truthy(h.jurisprudencia_tcu))
    IN  Opt(juris # <<>>, Elem("jurisprudencia", <<>>, MapSeq(Acordao, juris), PyNone))

Evidencia(h) ==
    Elem("evidencia",
         << <<"dispositivo_ref", _extract_span_id(h.chunk_id)>>,
            <<"url", evidence_url(h.chunk_id)>> >>
         \o Opt(h.page_number # NoInt, <<"pagina", str_int(h.page_number)>>)
         \o Opt(Truthy(h.canonical_hash), <<"hash", h.canonical_hash>>),
         <<>>, PyNone)

_build_trilha_verificavel_for_hits(hits) ==
    LET hits_with_id == SelectSeq(hits, LAMBDA h : Truthy(h.chunk_id))
    IN  Opt(hits_with_id # <<>>,
            Elem("trilha_verificavel", <<>>, MapSeq(Evidencia, hits_with_id), PyNone))

SearchReranker(r) ==
    IF DictTruthy(r.raw_response) /\ "reranker" \in DOMAIN r.raw_response
    THEN r.raw_response["reranker"] ELSE TRUE

\* expansion_stats is <<>> (None or {}) or <<stats>>.
Expansao(es) ==
    Elem("expansao", <<>>,
         << Leaf("expandidos", str_int(es.expanded_chunks_count)),
            Leaf("citacoes_encontradas", str_int(es.citations_scanned_count)),
            Leaf("citacoes_resolvidas", str_int(es.citations_resolved_count)),
            Leaf("tempo_ms", str_int(es.expansion_time_ms)) >>,
         PyNone)

_build_metadados_element(r) ==
    Elem("metadados", <<>>,
         << Leaf("pipeline", <<"fenix">>),
            Leaf("tempo_total_ms", str_int(r.latency_ms)),
            Leaf("reranker", lower_bool(SearchReranker(r))),
            Leaf("grafo_expandido", lower_bool(r.expanded_chunks # <<>>)),
            Leaf("cache_hit", lower_bool(r.cached)),
            Leaf("query_id", OrElse(r.query_id, <<>>)) >>
         \o (IF r.expansion_stats # <<>> THEN <<Expansao(r.expansion_stats[1])>> ELSE <<>>),
         PyNone)

(***************************************************************************)
(* _element_to_string: ElementTree cannot serialise an attribute whose     *)
(* value is None (TypeError).  The returned document is kept as its tree.  *)
(***************************************************************************)
RECURSIVE Unserializable(_)
Unserializable(e) ==
    \/ \E i \in 1..Len(e.attrib) : e.attrib[i][2] = PyNone
    \/ \E k \in 1..Len(e.kids) : Unserializable(e.kids[k])

_element_to_string(root) ==
    IF Unserializable(root) THEN Raise("TypeError", <<"cannot serialize None">>)
    ELSE Return(root)

AcceptedLevels == {"data", "instructions", "full"}

\* Variant of LevelAccepted that lets the empty string through.
LevelAcceptedOrEmpty(level) == level \in AcceptedLevels \/ level = ""

LevelAccepted(level) == level \in AcceptedLevels

\* ValueError(f"level invalido: {level!r}. Use 'data', 'instructions' ou 'full'.")
InvalidLevel(level) ==
    Raise("ValueError", [rejected |-> level, use |-> <<"data", "instructions", "full">>])

Root(level, endpoint, kids) ==
    Elem("vectorgov_knowledge_package",
         << <<"version", <<"1.0">>>>, <<"level", <<level>>>> >>
         \o Opt(endpoint # "", <<"endpoint", <<endpoint>>>>),
         kids, PyNone)

AnyMapping(seq) == \E i \in 1..Len(seq) : seq[i].is_mapping

ContextoEmitted(expanded) == expanded # <<>>

build_xml(r, level) ==
    IF ~LevelAccepted(level) THEN InvalidLevel(level)
    ELSE IF level = "full" /\ _collect_authorized_ids(r).err # PyNone
         THEN Raise("AttributeError", _collect_authorized_ids(r).err)
    ELSE IF ContextoEmitted(r.expanded_chunks) /\ AnyMapping(r.expanded_chunks)
         THEN Raise("AttributeError", <<"span_id">>)
    ELSE IF r.expansion_stats # <<>> /\ r.expansion_stats[1].is_mapping
         THEN Raise("AttributeError", <<"expanded_chunks_count">>)
    ELSE _element_to_string(
            Root(level, "",
                 Opt(level = "instructions", _build_instrucoes_element)
                 \o (IF level = "full" THEN <<_build_instrucoes_completas_element(r)>> ELSE <<>>)
                 \o <<_build_consulta_element(r)>>
                 \o _build_base_normativa_element(r)
                 \o (IF ContextoEmitted(r.expanded_chunks)
                     THEN <<_build_contexto_normativo_element(r)>> ELSE <<>>)
                 \o _build_notas_especialista_for_hits(r.hits)
                 \o _build_jurisprudencia_for_hits(r.hits)
                 \o _build_trilha_verificavel_for_hits(r.hits)
                 \o <<_build_metadados_element(r)>>))

(***************************************************************************)
(* Hybrid builder.                                                         *)
(***************************************************************************)
HybridInterpreted(r) ==
    IF r.query_rewrite_active /\ Truthy(r.query_rewrite_clean_query)
    THEN r.query_rewrite_clean_query ELSE r.query

HybridEstrategia(r) ==
    r.mode
    \o (IF r.dual_lane_active THEN <<":dual_lane">> ELSE <<>>)
    \o (IF Truthy(r.docfilter_detected_doc_id)
        THEN <<" (doc_foco=">> \o r.docfilter_detected_doc_id \o <<")">> ELSE <<>>)

_build_hybrid_consulta_element(r) ==
    Elem("consulta",
         Opt(Truthy(r.docfilter_detected_doc_id), <<"doc_foco", r.docfilter_detected_doc_id>>),
         << Leaf("query_original", r.query),
            Leaf("query_interpretada", HybridInterpreted(r)),
            Leaf("confianca_global", Fmt4(r.confidence)),
            Leaf("estrategia", HybridEstrategia(r)) >>,
         PyNone)

_DEVICE_MAP_PT(device_type) == _DEVICE_MAP(device_type)

\* Variant of FreqEmitted that tests "is not None" in place of truthiness.
FreqEmittedWhenKnown(h) == h.frequency # NoInt

FreqEmitted(h) == h.frequency # NoInt /\ h.frequency # 0

HybridDispositivoRelacionado(h) ==
    Elem("dispositivo_relacionado",
         << <<"id", OrElse(h.span_id, <<>>)>>, <<"lei", OrElse(h.document_id, <<>>)>> >>
         \o Opt(Truthy(h.device_type), <<"tipo", _DEVICE_MAP_PT(h.device_type)>>)
         \o << <<"hop", py_str_int(h.hop)>> >>
         \o Opt(FreqEmitted(h), <<"freq", str_int(h.frequency)>>),
         <<>>, OrElse(h.text, <<>>))

_build_hybrid_contexto_normativo_element(r) ==
    Elem("contexto_normativo", <<>>, MapSeq(HybridDispositivoRelacionado, r.graph_nodes), PyNone)

StatLeaf(d, key, tag) ==
    Opt(key \in DOMAIN d /\ Get(d, key) # NoInt, Leaf(tag, str_int(Get(d, key))))

HybridStatsLeaves(st) ==
    LET timings == IF "timings" \in DOMAIN st THEN st["timings"] ELSE EmptyDict
    IN  StatLeaf(timings, "search_ms", "tempo_busca_ms")
        \o StatLeaf(timings, "rerank_ms", "tempo_rerank_ms")
        \o StatLeaf(timings, "graph_ms", "tempo_grafo_ms")
        \o (IF "seeds_count" \in DOMAIN st
            THEN StatLeaf(st, "seeds_count", "hits_milvus")
            ELSE StatLeaf(st, "hits_milvus", "hits_milvus"))
        \o StatLeaf(st, "graph_nodes", "nodes_grafo")
        \o StatLeaf(st, "total_chunks", "total_chunks")
        \o StatLeaf(st, "total_tokens", "total_tokens")

_build_hybrid_metadados_element(r) ==
    Elem("metadados", <<>>,
         << Leaf("pipeline", <<"fenix">>), Leaf("tempo_total_ms", str_int(r.latency_ms)) >>
         \o (IF DictTruthy(r.stats) THEN HybridStatsLeaves(r.stats) ELSE <<>>)
         \o << Leaf("reranker", <<"true">>),
               Leaf("hyde", lower_bool(r.hyde_used)),
               Leaf("grafo_expandido", lower_bool(r.graph_nodes # <<>>)),
               Leaf("cache_hit", lower_bool(r.cached)) >>,
         PyNone)

build_hybrid_xml(r, level) ==
    IF ~LevelAccepted(level) THEN InvalidLevel(level)
    ELSE _element_to_string(
            Root(level, "hybrid",
                 Opt(level = "instructions", _build_instrucoes_element)
                 \o (IF level = "full" THEN <<_build_instrucoes_completas_for_hybrid(r)>> ELSE <<>>)
                 \o <<_build_hybrid_consulta_element(r)>>
                 \o _build_hybrid_base_normativa_element(r)
                 \o (IF ContextoEmitted(r.graph_nodes)
                     THEN <<_build_hybrid_contexto_normativo_element(r)>> ELSE <<>>)
                 \o _build_notas_especialista_for_hits(r.hits)
                 \o _build_jurisprudencia_for_hits(r.hits)
                 \o _build_trilha_verificavel_for_hits(r.hits)
                 \o <<_build_hybrid_metadados_element(r)>>))

(***************************************************************************)
(* Lookup builder.                                                         *)
(***************************************************************************)
ResolvedAttr(d, key, name) == Opt(Truthy(Get(d, key)), <<name, Get(d, key)>>)

ResolvedEmitted(r) == DictTruthy(r.resolved)

ReferenciaResolvida(d) ==
    Elem("referencia_resolvida",
         ResolvedAttr(d, "device_type", "device_type")
         \o ResolvedAttr(d, "article_number", "artigo")
         \o ResolvedAttr(d, "paragraph_number", "paragrafo")
         \o ResolvedAttr(d, "inciso_number", "inciso")
         \o ResolvedAttr(d, "alinea_letter", "alinea")
         \o ResolvedAttr(d, "resolved_document_id", "documento")
         \o ResolvedAttr(d, "resolved_span_id", "span_id"),
         <<>>, PyNone)

LookupConsulta(r) ==
    Elem("consulta", <<>>,
         << Leaf("referencia_original", r.query), Leaf("status", <<r.status>>) >>
         \o (IF ResolvedEmitted(r) THEN <<ReferenciaResolvida(r.resolved)>> ELSE <<>>),
         PyNone)

ArtigoPai(h) ==
    Elem("artigo_pai", << <<"id", h.span_id>>, <<"device_type", h.device_type>> >>, <<>>,
         OrElse(h.text, <<>>))

DispositivoPrincipal(h) ==
    Elem("dispositivo_principal",
         << <<"id", h.span_id>>, <<"tipo", h.device_type>> >>
         \o Opt(Truthy(h.article_number), <<"artigo", h.article_number>>),
         <<>>, OrElse(h.text, <<>>))

Irmao(h) ==
    Elem("irmao",
         << <<"id", h.span_id>>, <<"tipo", h.device_type>>, <<"atual", lower_bool(h.is_current)>> >>,
         <<>>, OrElse(h.text, <<>>))

\* Variant of HierarquiaEmitted that ignores the status.
HierarquiaEmittedForMatch(r) == r.match # <<>>

HierarquiaEmitted(r) == r.status = "found" /\ r.match # <<>>

HierarquiaNormativa(r) ==
    Elem("hierarquia_normativa", <<>>,
         (IF r.parent # <<>> THEN <<ArtigoPai(r.parent[1])>> ELSE <<>>)
         \o <<DispositivoPrincipal(r.match[1])>>
         \o (IF r.siblings # <<>>
             THEN <<Elem("dispositivos_irmaos", <<>>, MapSeq(Irmao, r.siblings), PyNone)>>
             ELSE <<>>),
         PyNone)

Candidato(c) ==
    Elem("candidato",
         << <<"document_id", c.document_id>>, <<"node_id", c.node_id>> >>
         \o Opt(Truthy(c.tipo_documento), <<"tipo_documento", c.tipo_documento>>),
         <<>>, OrElse(c.text, <<>>))

CandidatosEmitted(r) == r.status = "ambiguous" /\ r.candidates # <<>>

LookupMetadados(r) ==
    Elem("metadados", <<>>,
         << Leaf("pipeline", <<"fenix">>), Leaf("tempo_total_ms", str_int(r.latency_ms)) >>,
         PyNone)

LookupContractEmitted(r) == r.match # <<>>

LookupParentListed(r, ids) == r.parent # <<>>

\* ids of <dispositivos_autorizados> in the lookup package.
LookupXmlIds(r) ==
    LET a == <<r.match[1].span_id>>
        b == IF LookupParentListed(r, a) THEN Append(a, r.parent[1].span_id) ELSE a
    IN  AppendNewSpans(b, r.siblings)

\* Variant of _build_lookup_instrucoes_completas that leaves the final
\* verification checklist out.
_build_lookup_instrucoes_without_checklist(r) ==
    Elem("instrucoes_completas", <<>>,
         << Leaf("papel", _PAPEL_TEXT), AntiAlucinacao >>
         \o (IF LookupContractEmitted(r)
             THEN <<Elem("contrato_resposta", <<>>,
                         <<Leaf("dispositivos_autorizados",
                                WhitelistText(LookupWhitelistHeader, LookupXmlIds(r)))>>,
                         PyNone)>>
             ELSE <<>>),
         PyNone)

_build_lookup_instrucoes_completas(r) ==
    Elem("instrucoes_completas", <<>>,
         << Leaf("papel", _PAPEL_TEXT), AntiAlucinacao >>
         \o (IF LookupContractEmitted(r)
             THEN <<Elem("contrato_resposta", <<>>,
                         <<Leaf("dispositivos_autorizados",
                                WhitelistText(LookupWhitelistHeader, LookupXmlIds(r)))>>,
                         PyNone)>>
             ELSE <<>>)
         \o <<Leaf("verificacao_final", _VERIFICACAO_FINAL_TEXT)>>,
         PyNone)

build_lookup_xml(r, level) ==
    IF ~LevelAccepted(level) THEN InvalidLevel(level)
    ELSE IF level = "full" /\ LookupContractEmitted(r) /\ Contains(LookupXmlIds(r), PyNone)
         THEN Raise("TypeError", <<"sequence item: expected str instance, NoneType found">>)
    ELSE _element_to_string(
            Root(level, "lookup",
                 Opt(level = "instructions", _build_instrucoes_element)
                 \o (IF level = "full" THEN <<_build_lookup_instrucoes_completas(r)>> ELSE <<>>)
                 \o <<LookupConsulta(r)>>
                 \o (IF HierarquiaEmitted(r) THEN <<HierarquiaNormativa(r)>> ELSE <<>>)
                 \o (IF CandidatosEmitted(r)
                     THEN <<Elem("candidatos", <<>>, MapSeq(Candidato, r.candidates), PyNone)>>
                     ELSE <<>>)
                 \o <<LookupMetadados(r)>>))

(***************************************************************************)
(* Methods of the result entities.                                         *)
(***************************************************************************)
to_xml(r, level) ==
    CASE r.kind = "search" -> build_xml(r, level)
      [] r.kind = "hybrid" -> build_hybrid_xml(r, level)
      [] r.kind = "lookup" -> build_lookup_xml(r, level)

\* Variant of MessagesXml that prefers the result's own query.
MessagesXmlOwnQueryFirst(r, query, level) ==
    LET xml == to_xml(r, level)
    IN  IF xml.status # "return" THEN xml
        ELSE Return(<< [role |-> "system", content |-> xml.val],
                       [role |-> "user", content |-> OrElse(r.query, query)] >>)

\* build_messages_xml, build_hybrid_messages_xml, build_lookup_messages_xml:
\* query = query or result.query (result.reference is an alias of query).
MessagesXml(r, query, level) ==
    LET xml == to_xml(r, level)
    IN  IF xml.status # "return" THEN xml
        ELSE Return(<< [role |-> "system", content |-> xml.val],
                       [role |-> "user", content |-> OrElse(query, r.query)] >>)

\* f"{xml}\n\nPergunta: {query}\n\nResposta:"
PromptXml(r, query, level) ==
    LET xml == to_xml(r, level)
    IN  IF xml.status # "return" THEN xml
        ELSE Return(<<xml.val, "\n\nPergunta: ", OrElse(query, r.query), "\n\nResposta:">>)

(***************************************************************************)
(* Result entities as the parsers of client.py build them.  latency_ms is  *)
(* the whole number of milliseconds the response carries.                  *)
(***************************************************************************)
SearchResult(hits, expanded_chunks, expansion_stats) ==
    [kind |-> "search", query |-> <<"q">>, hits |-> hits, mode |-> <<"balanced">>,
     expanded_chunks |-> expanded_chunks, expansion_stats |-> expansion_stats,
     latency_ms |-> 150, cached |-> FALSE, query_id |-> <<"q-1">>,
     raw_response |-> EmptyDict]

HybridResult(hits, graph_nodes) ==
    [kind |-> "hybrid", query |-> <<"q">>, hits |-> hits, graph_nodes |-> graph_nodes,
     stats |-> EmptyDict, confidence |-> 0, hyde_used |-> FALSE,
     docfilter_detected_doc_id |-> PyNone, query_rewrite_active |-> FALSE,
     query_rewrite_clean_query |-> PyNone, dual_lane_active |-> FALSE,
     mode |-> <<"hybrid">>, latency_ms |-> 150, cached |-> FALSE,
     raw_response |-> EmptyDict]

LookupResult(status, match, parent, siblings, resolved, candidates) ==
    [kind |-> "lookup", query |-> <<"Art. 1">>, status |-> status, match |-> match,
     parent |-> parent, siblings |-> siblings, resolved |-> resolved,
     candidates |-> candidates, latency_ms |-> 150, raw_response |-> EmptyDict]

\* A hit of /search: chunk_id is item.get("chunk_id"), span_id is not set.
SearchHit(chunk_id) == With(DefaultHit, "chunk_id", chunk_id)

\* A graph node of /hybrid, or an expanded chunk held as an object.
GraphNode(span_id, chunk_id) ==
    [DefaultHit EXCEPT !.span_id = span_id, !.chunk_id = chunk_id,
                       !.document_id = <<"D">>, !.device_type = <<"article">>,
                       !.hop = 1, !.frequency = 0, !.relacao = <<"citacao">>]

\* An expanded chunk held as a raw mapping, as list[dict] declares it.
ExpandedMapping(span_id, chunk_id) == With(GraphNode(span_id, chunk_id), "is_mapping", TRUE)

\* match, parent and siblings of /lookup.
LookupHit(span_id) ==
    [DefaultHit EXCEPT !.span_id = span_id, !.chunk_id = <<>>,
                       !.device_type = <<"paragraph">>, !.document_id = <<"D">>]

(***************************************************************************)
(* Inputs of the identifier specification.                                 *)
(***************************************************************************)
HitChunkIds ==
    { PyNone, <<"A">>,
      <<"D", "#", "A">>, <<"E", "#", "A">>, <<"D", "#", "B">> }

NodeIds ==
    { << <<"A">>, <<"D", "#", "A">> >>,
      << <<"C">>, <<>> >>,
      << <<>>, <<"D", "#", "C">> >> }

IdHits == {SearchHit(c) : c \in HitChunkIds}
IdNodes == {GraphNode(n[1], n[2]) : n \in NodeIds}
IdMappings == {ExpandedMapping(n[1], n[2]) : n \in NodeIds}

LookupSpans == {<<"A">>, <<"B">>, <<>>}
OptionalLookupHit == {<<>>} \cup {<<LookupHit(s)>> : s \in LookupSpans}

IdResults ==
    {SearchResult(hs, ex, <<>>) :
        hs \in SeqsUpTo(IdHits, MaxHits),
        ex \in SeqsUpTo(IdNodes, MaxExpanded) \cup SeqsUpTo(IdMappings, MaxExpanded)}
    \cup
    {HybridResult(hs, gn) :
        hs \in SeqsUpTo(IdHits, MaxHits), gn \in SeqsUpTo(IdNodes, MaxExpanded)}
    \cup
    {LookupResult(st, m, p, sb, EmptyDict, <<>>) :
        st \in {"found", "not_found"}, m \in OptionalLookupHit, p \in OptionalLookupHit,
        sb \in SeqsUpTo({LookupHit(s) : s \in LookupSpans}, MaxSiblings)}

Idle == [op |-> "none"]

\* The module as imported: nothing cached, nothing called.
NothingCalled ==
    /\ _XML_CACHE = EmptyDict /\ calls = <<>> /\ response = EmptyDict
    /\ heap = <<>> /\ threads = <<>> /\ http = <<>>

(***************************************************************************)
(* Operations.                                                             *)
(***************************************************************************)
ToXml(level) ==
    /\ out' = [op |-> "to_xml", level |-> level, ret |-> to_xml(result, level)]
    /\ UNCHANGED <<result, _XML_CACHE, calls, response, heap, threads, http>>

ToResponseSchema ==
    /\ out' = [op |-> "to_response_schema", ret |-> to_response_schema(result)]
    /\ UNCHANGED <<result, _XML_CACHE, calls, response, heap, threads, http>>

ToAnthropicToolSchema ==
    /\ out' = [op |-> "to_anthropic_tool_schema", ret |-> to_anthropic_tool_schema(result)]
    /\ UNCHANGED <<result, _XML_CACHE, calls, response, heap, threads, http>>

InitIds == result \in IdResults /\ out = Idle /\ NothingCalled

NextIds ==
    \/ \E level \in AcceptedLevels : ToXml(level)
    \/ ToResponseSchema
    \/ ToAnthropicToolSchema

SpecIds == InitIds /\ [][NextIds]_vars

(***************************************************************************)
(* Reading a returned package and a returned schema.                       *)
(***************************************************************************)
Returned(op) == out.op = op /\ out.ret.status = "return"
FullPackage == Returned("to_xml") /\ out.level = "full"
SearchOrHybrid == result.kind \in {"search", "hybrid"}

EnumOf(wrapper) == wrapper.schema.properties.fundamentacao.items.properties.dispositivo_id.enum

ContratoOf(package) == Child(Child(package, "instrucoes_completas"), "contrato_resposta")

XmlWhitelistPresent(package) ==
    /\ HasChild(package, "instrucoes_completas")
    /\ HasChild(Child(package, "instrucoes_completas"), "contrato_resposta")
    /\ HasChild(ContratoOf(package), "dispositivos_autorizados")

\* The IDs of <dispositivos_autorizados>: the text after the header line,
\* split on ", ".
XmlWhitelist(package) ==
    Split(Tail(Child(ContratoOf(package), "dispositivos_autorizados").text), ", ")

MapaPresent(package) == HasChild(ContratoOf(package), "mapa_evidencias")

\* The entries of <mapa_evidencias>, one <<span_id, url>> per line.
MapaEntries(package) ==
    IF MapaPresent(package)
    THEN MapSeq(LAMBDA line : Split(line, " -> "),
                Split(Child(ContratoOf(package), "mapa_evidencias").text, "\n"))
    ELSE <<>>

\* The (span_id, chunk_id) carriers of a search or hybrid result: hits
\* first, then expanded chunks or graph nodes.
ExpandedOf(r) == IF r.kind = "search" THEN r.expanded_chunks ELSE r.graph_nodes

Carriers(r) ==
    [i \in 1..Len(r.hits) |->
        [span |-> _extract_span_id(r.hits[i].chunk_id), chunk |-> r.hits[i].chunk_id]]
    \o [i \in 1..Len(ExpandedOf(r)) |->
        [span |-> ExpandedOf(r)[i].span_id, chunk |-> ExpandedOf(r)[i].chunk_id]]

\* The elements of a sequence in order of first occurrence.
RECURSIVE FirstOccurrences(_)
FirstOccurrences(seq) ==
    IF seq = <<>> THEN <<>>
    ELSE LET front == FirstOccurrences(SubSeq(seq, 1, Len(seq) - 1))
             last == seq[Len(seq)]
         IN  IF last \in Range(front) THEN front ELSE Append(front, last)

SpansInOrder(r) ==
    FirstOccurrences(SelectSeq([i \in 1..Len(Carriers(r)) |-> Carriers(r)[i].span], Truthy))

FirstCarrier(r, span) ==
    Carriers(r)[CHOOSE i \in 1..Len(Carriers(r)) :
                    /\ Carriers(r)[i].span = span
                    /\ \A j \in 1..(i - 1) : Carriers(r)[j].span # span]

PercentEncoded(chunk_id) ==
    Concat([i \in 1..Len(chunk_id) |->
                IF chunk_id[i] = "#" THEN <<"%23">> ELSE <<chunk_id[i]>>])

\* C1: when to_response_schema() of a SearchResult or HybridResult returns a
\* wrapper, the dispositivo_id enum holds exactly the span IDs derivable from
\* the result (the span of every hit's chunk_id, the span_id of every
\* expanded chunk or graph node): none extra, none missing, none twice.
C1_EnumIsDerivableSet ==
    (Returned("to_response_schema") /\ SearchOrHybrid) =>
        /\ NoDuplicates(EnumOf(out.ret.val))
        /\ Range(EnumOf(out.ret.val))
             = {c.span : c \in Range(Carriers(result))} \ {<<>>, PyNone}

C1_Witness ==
    /\ Returned("to_response_schema") /\ result.kind = "search"
    /\ Len(result.hits) = 2
    /\ result.hits[1].chunk_id # result.hits[2].chunk_id
    /\ _extract_span_id(result.hits[1].chunk_id) = _extract_span_id(result.hits[2].chunk_id)
    /\ Len(result.expanded_chunks) = 2
    /\ Len(EnumOf(out.ret.val)) = 2

\* C2: at level 'full' the <dispositivos_autorizados> whitelist of a search
\* or hybrid package lists every span ID of the result, hits first and then
\* expanded chunks or graph nodes, each once, in order of first occurrence,
\* and no other ID.
C2_WhitelistInFirstOccurrenceOrder ==
    (FullPackage /\ SearchOrHybrid) =>
        IF SpansInOrder(result) = <<>>
        THEN ~XmlWhitelistPresent(out.ret.val)
        ELSE /\ XmlWhitelistPresent(out.ret.val)
             /\ XmlWhitelist(out.ret.val) = SpansInOrder(result)

C2_Witness ==
    /\ FullPackage /\ result.kind = "hybrid"
    /\ Len(Carriers(result)) = 4
    /\ XmlWhitelistPresent(out.ret.val)
    /\ Len(XmlWhitelist(out.ret.val)) = 3

\* C3: for search, hybrid and lookup results the whitelist of to_xml('full')
\* equals the enum of to_response_schema(), and the whitelist is present
\* exactly when to_response_schema() returns a schema.
C3_XmlWhitelistEqualsSchemaEnum ==
    FullPackage =>
        /\ XmlWhitelistPresent(out.ret.val) <=> (to_response_schema(result).status = "return")
        /\ XmlWhitelistPresent(out.ret.val) =>
              XmlWhitelist(out.ret.val) = EnumOf(to_response_schema(result).val)

\* C4: to_response_schema() and to_anthropic_tool_schema() return None when a
\* search or hybrid result has no hits or a lookup result has no match,
\* whatever expanded chunks, graph nodes, parent or siblings it carries.
C4_NoneWithoutHitsOrMatch ==
    ( /\ out.op \in {"to_response_schema", "to_anthropic_tool_schema"}
      /\ \/ SearchOrHybrid /\ result.hits = <<>>
         \/ result.kind = "lookup" /\ result.match = <<>> )
    => out.ret.status = "none"

\* C5: the enum of a LookupResult schema is the span IDs of match, parent
\* and siblings without duplicates: match first, then parent, then the
\* siblings in order.
C5_LookupEnumIsDedupOfMatchParentSiblings ==
    (Returned("to_response_schema") /\ result.kind = "lookup") =>
        EnumOf(out.ret.val)
          = FirstOccurrences(
              [i \in 1..Len(result.match) |-> result.match[i].span_id]
              \o [i \in 1..Len(result.parent) |-> result.parent[i].span_id]
              \o [i \in 1..Len(result.siblings) |-> result.siblings[i].span_id])

C5_Witness ==
    /\ Returned("to_response_schema") /\ result.kind = "lookup"
    /\ result.match # <<>> /\ result.parent # <<>>
    /\ result.match[1].span_id = result.parent[1].span_id
    /\ Len(result.siblings) = 2
    /\ result.siblings[1].span_id = result.match[1].span_id
    /\ Len(EnumOf(out.ret.val)) = 2

\* C6 as stated: at level 'full', whenever the whitelist of a search or
\* hybrid package is emitted, <mapa_evidencias> holds exactly one entry per
\* whitelisted span ID, whose URL is '/api/v1/evidence/' followed by the
\* percent-encoded chunk_id of the first hit or node carrying that span ID.
C6_OneEntryPerWhitelistedId ==
    (FullPackage /\ SearchOrHybrid /\ XmlWhitelistPresent(out.ret.val)) =>
        MapaEntries(out.ret.val)
          = MapSeq(LAMBDA span :
                      <<span, EvidencePath \o PercentEncoded(FirstCarrier(result, span).chunk)>>,
                   XmlWhitelist(out.ret.val))

\* C6 amended: <mapa_evidencias> holds exactly one entry for each whitelisted
\* span ID whose first carrier has a non-empty chunk_id, in whitelist order,
\* with the URL as stated; a whitelisted ID whose first carrier has no
\* chunk_id has no entry, and the element is omitted when no entry remains.
C6_OneEntryPerWhitelistedIdWithChunk ==
    (FullPackage /\ SearchOrHybrid /\ XmlWhitelistPresent(out.ret.val)) =>
        LET mapped == SelectSeq(XmlWhitelist(out.ret.val),
                                LAMBDA span : Truthy(FirstCarrier(result, span).chunk))
        IN  /\ MapaPresent(out.ret.val) <=> (mapped # <<>>)
            /\ MapaEntries(out.ret.val)
                 = MapSeq(LAMBDA span :
                            <<span, EvidencePath
                                    \o PercentEncoded(FirstCarrier(result, span).chunk)>>,
                          mapped)

C6_Witness ==
    /\ FullPackage /\ result.kind = "search"
    /\ XmlWhitelistPresent(out.ret.val)
    /\ Len(XmlWhitelist(out.ret.val)) = 3
    /\ Len(MapaEntries(out.ret.val)) = 2
    /\ \E i \in 1..2 : \E k \in 1..Len(MapaEntries(out.ret.val)[i][2]) :
          MapaEntries(out.ret.val)[i][2][k] = "%23"

(***************************************************************************)
(* Inputs of the grouping specification: hits of five sources; "lei" and   *)
(* "LEI" differ in case only, and one source has no document type while    *)
(* another carries the type "doc".                                         *)
(***************************************************************************)
GroupSources ==
    { [name |-> "s1", type |-> <<"lei">>, number |-> <<"14133">>, year |-> 2021],
      [name |-> "s2", type |-> <<"LEI">>, number |-> <<"14133">>, year |-> 2021],
      [name |-> "s3", type |-> <<"in">>, number |-> <<"65">>, year |-> 2021],
      [name |-> "s4", type |-> <<>>, number |-> <<"65">>, year |-> 2021],
      [name |-> "s5", type |-> <<"doc">>, number |-> <<"65">>, year |-> 2021] }

GroupSource(name) == CHOOSE src \in GroupSources : src.name = name

\* The text names the hit: source, score and canonical_start.
GroupHit(name, score, canonical_start) ==
    [DefaultHit EXCEPT
        !.md_type = GroupSource(name).type, !.md_number = GroupSource(name).number,
        !.md_year = GroupSource(name).year, !.score = score,
        !.canonical_start = canonical_start,
        !.text = <<name, ":">> \o str_int(score) \o <<"@">> \o py_str_int(canonical_start)]

GroupHits ==
    {GroupHit("s1", sc, cs) : sc \in {50, 90}, cs \in {NoInt, 0, 7}}
    \cup {GroupHit("s2", 50, cs) : cs \in {NoInt, 7}}
    \cup {GroupHit("s3", sc, 0) : sc \in {50, 90}}
    \cup {GroupHit("s4", 50, 7), GroupHit("s5", 50, 0)}

GroupResults ==
    {SearchResult(hs, <<>>, <<>>) : hs \in SeqsUpTo(GroupHits, MaxGroupHits)}
    \cup {HybridResult(hs, <<>>) : hs \in SeqsUpTo(GroupHits, MaxGroupHits)}

GroupHitsBySource ==
    /\ out' = [op |-> "_group_hits_by_source",
               ret |-> Return(_group_hits_by_source(result.hits))]
    /\ UNCHANGED <<result, _XML_CACHE, calls, response, heap, threads, http>>

InitGroup == result \in GroupResults /\ out = Idle /\ NothingCalled

NextGroup == GroupHitsBySource \/ ToXml("data")

SpecGroup == InitGroup /\ [][NextGroup]_vars

\* The groups of the output, each as [tipo, lei, members]: members are the
\* texts of its hits, in the order of the output.
TextOf(e) == e.text

GroupsOfOutput ==
    IF out.op = "_group_hits_by_source"
    THEN MapSeq(LAMBDA g : [tipo |-> g.tipo, lei |-> g.lei, members |-> MapSeq(TextOf, g.hits)],
                out.ret.val)
    ELSE IF HasChild(out.ret.val, "base_normativa")
    THEN MapSeq(LAMBDA f : [tipo |-> Attr(f, "tipo"), lei |-> Attr(f, "lei"),
                            members |-> MapSeq(TextOf, Children(f, "dispositivo"))],
                Children(Child(out.ret.val, "base_normativa"), "fonte"))
    ELSE <<>>

GroupedOutput == Returned("_group_hits_by_source") \/ Returned("to_xml")

HitOfText(text) == CHOOSE h \in Range(result.hits) : h.text = text

FirstHitIndex(group) ==
    CHOOSE i \in 1..Len(result.hits) :
        /\ Contains(group.members, result.hits[i].text)
        /\ \A j \in 1..(i - 1) : ~Contains(group.members, result.hits[j].text)

\* C7 as stated: grouping yields exactly one group (<fonte>) per distinct
\* (document type upper-cased, document number, year) triple among the
\* hits, and the groups appear in the order of their first hits.
C7_OneFontePerTriple ==
    GroupedOutput =>
        /\ Len(GroupsOfOutput)
             = Cardinality({<<upper(h.md_type), h.md_number, h.md_year>> :
                               h \in Range(result.hits)})
        /\ \A i, j \in 1..Len(GroupsOfOutput) :
              i < j => FirstHitIndex(GroupsOfOutput[i]) < FirstHitIndex(GroupsOfOutput[j])

\* C7 amended: grouping yields exactly one group (<fonte>) per distinct
\* source key, the triple (type upper-cased, number, year) in which a
\* missing type reads "DOC" and a missing number or year reads "?", so a hit
\* without a type shares the group of the hits typed "DOC"; the groups
\* appear in the order of their first hits.
C7_OneFontePerSourceKey ==
    GroupedOutput =>
        MapSeq(LAMBDA g : <<g.tipo, g.lei>>, GroupsOfOutput)
          = FirstOccurrences(
              MapSeq(LAMBDA h :
                        << IF h.md_type = <<>> THEN <<"DOC">> ELSE upper(h.md_type),
                           (IF h.md_number = <<>> THEN <<"?">> ELSE h.md_number)
                           \o <<"/">>
                           \o (IF h.md_year = 0 THEN <<"?">> ELSE str_int(h.md_year)) >>,
                     result.hits))

C7_Witness ==
    /\ Returned("to_xml")
    /\ Len(result.hits) = 3
    /\ result.hits[1].md_type = <<>>
    /\ result.hits[2].md_type = <<"lei">>
    /\ result.hits[3].md_type = <<"doc">>
    /\ Len(GroupsOfOutput) = 2
    /\ GroupsOfOutput[1].tipo = <<"DOC">>
    /\ Len(GroupsOfOutput[1].members) = 2

\* C8: in the search and the hybrid builder, the <dispositivo> elements of
\* every <fonte> are in non-increasing score order; hits of equal score are
\* in non-decreasing canonical_start order, and a hit without
\* canonical_start comes after every equal-score hit that has one.
C8_DispositivosOrdered ==
    Returned("to_xml") =>
        \A g \in 1..Len(GroupsOfOutput) :
            \A i, j \in 1..Len(GroupsOfOutput[g].members) :
                i < j =>
                    LET a == HitOfText(GroupsOfOutput[g].members[i])
                        b == HitOfText(GroupsOfOutput[g].members[j])
                    IN  /\ a.score >= b.score
                        /\ a.score = b.score =>
                              \/ b.canonical_start = NoInt
                              \/ /\ a.canonical_start # NoInt
                                 /\ a.canonical_start <= b.canonical_start

C8_Witness ==
    /\ Returned("to_xml") /\ result.kind = "hybrid"
    /\ Len(result.hits) = 3
    /\ result.hits[1].canonical_start = NoInt
    /\ result.hits[2].canonical_start = 7
    /\ result.hits[3].canonical_start = 0
    /\ result.hits[1].score = result.hits[2].score
    /\ result.hits[2].score = result.hits[3].score
    /\ Len(GroupsOfOutput) = 1
    /\ GroupsOfOutput[1].members
         = <<result.hits[3].text, result.hits[2].text, result.hits[1].text>>

(***************************************************************************)
(* Inputs of the package specification: results whose optional sections    *)
(* have and lack their source data, and level values inside and outside    *)
(* the accepted three.  to_messages and to_prompt are called with a level  *)
(* (without one, SearchResult takes the plain-text path).                  *)
(***************************************************************************)
SectionHits ==
    { DefaultHit,
      SearchHit(<<"D", "#", "A">>),
      [SearchHit(<<"D", "#", "B">>) EXCEPT !.nota_especialista = <<"nota">>],
      [SearchHit(<<"D", "#", "C">>) EXCEPT !.jurisprudencia_tcu = <<"acordao">>,
                                            !.acordao_tcu_key = <<"1234/2023">>] }

StatsObject ==
    [is_mapping |-> FALSE, expanded_chunks_count |-> 1, citations_scanned_count |-> 1,
     citations_resolved_count |-> 1, expansion_time_ms |-> 5]

ResolvedDicts ==
    { EmptyDict,
      [k \in {"device_type", "article_number"} |->
          IF k = "device_type" THEN <<"article">> ELSE <<"5">>],
      [k \in {"device_type", "article_number"} |-> <<>>],
      [k \in {"raw"} |-> <<"Art. 1">>] }

LookupCandidate ==
    [document_id |-> <<"D">>, node_id |-> <<"n1">>, text |-> <<"t">>,
     tipo_documento |-> <<"LEI">>]

\* Siblings of a lookup: one that is not the consulted device, one that is.
LookupSiblings ==
    { LookupHit(<<"S">>), [LookupHit(<<"T">>) EXCEPT !.is_current = TRUE] }

\* Graph nodes of a hybrid result: one never cited (frequency 0, the parser's
\* default), one cited 5 times at hop 2 (test_hybrid_xml_graph_expansion_freq_tipo).
HybridNodes ==
    { GraphNode(<<"E">>, <<"D", "#", "E">>),
      [GraphNode(<<"F">>, <<"D", "#", "F">>) EXCEPT !.frequency = 5, !.hop = 2] }

PackageResults ==
    {SearchResult(hs, ex, es) :
        hs \in SeqsUpTo(SectionHits, MaxHits),
        ex \in { <<>>, <<GraphNode(<<"E">>, <<"D", "#", "E">>)>>,
                 <<ExpandedMapping(<<"E">>, <<"D", "#", "E">>)>> },
        es \in { <<>>, <<StatsObject>>, <<[StatsObject EXCEPT !.is_mapping = TRUE]>> }}
    \cup
    {HybridResult(hs, gn) :
        hs \in SeqsUpTo(SectionHits, MaxHits),
        gn \in SeqsUpTo(HybridNodes, MaxExpanded)}
    \cup
    {LookupResult(st, m, pa, sb, rs, cs) :
        st \in {"found", "not_found", "ambiguous", "parse_failed"},
        m \in {<<>>, <<LookupHit(<<"A">>)>>},
        pa \in {<<>>, <<LookupHit(<<"P">>)>>},
        sb \in SeqsUpTo(LookupSiblings, MaxSiblings),
        rs \in ResolvedDicts,
        cs \in {<<>>, <<LookupCandidate>>}}

LevelInputs == AcceptedLevels \cup {"bogus", "FULL", ""}
QueryInputs == {PyNone, <<>>, <<"q2">>}

\* The caller asks for messages or a prompt on a result it has made no call
\* on yet (the builders keep no state between calls, see SpecCalls).
ToMessages(query, level) ==
    /\ out = Idle
    /\ out' = [op |-> "to_messages", level |-> level, query |-> query,
               ret |-> MessagesXml(result, query, level)]
    /\ UNCHANGED <<result, _XML_CACHE, calls, response, heap, threads, http>>

ToPrompt(query, level) ==
    /\ out = Idle
    /\ out' = [op |-> "to_prompt", level |-> level, query |-> query,
               ret |-> PromptXml(result, query, level)]
    /\ UNCHANGED <<result, _XML_CACHE, calls, response, heap, threads, http>>

InitPackages == result \in PackageResults /\ out = Idle /\ NothingCalled

NextPackages ==
    \/ \E level \in LevelInputs : ToXml(level)
    \/ \E query \in QueryInputs, level \in LevelInputs : ToMessages(query, level)
    \/ \E query \in QueryInputs, level \in LevelInputs : ToPrompt(query, level)

SpecPackages == InitPackages /\ [][NextPackages]_vars

\* Every element of a tree, the root first.
RECURSIVE Descendants(_)
Descendants(e) == <<e>> \o Concat(MapSeq(Descendants, e.kids))

EmittedEmpty(e) == e.kids = <<>> /\ e.attrib = <<>> /\ Falsy(e.text)

\* Whether the source data of an optional section is non-empty.
SectionHasSource(tag) ==
    CASE tag = "base_normativa" -> result.hits # <<>>
      [] tag = "contexto_normativo" -> ExpandedOf(result) # <<>>
      [] tag = "notas_especialista" ->
            \E h \in Range(result.hits) : Truthy(h.nota_especialista)
      [] tag = "jurisprudencia" ->
            \E h \in Range(result.hits) : Truthy(h.jurisprudencia_tcu)
      [] tag = "trilha_verificavel" ->
            \E h \in Range(result.hits) : Truthy(h.chunk_id)
      [] tag = "referencia_resolvida" -> DOMAIN result.resolved # {}
      [] tag = "hierarquia_normativa" -> result.match # <<>>
      [] tag = "dispositivos_irmaos" -> result.siblings # <<>>
      [] tag = "candidatos" -> result.candidates # <<>>

OptionalSections ==
    {"base_normativa", "contexto_normativo", "notas_especialista", "jurisprudencia",
     "trilha_verificavel", "referencia_resolvida", "hierarquia_normativa",
     "dispositivos_irmaos", "candidatos"}

\* C9: in every XML package of every result kind and level, each optional
\* data section is present only when its source data is non-empty, and is
\* never emitted empty (with no child, attribute or text).
C9_OptionalSectionsNeverEmpty ==
    Returned("to_xml") =>
        \A e \in Range(Descendants(out.ret.val)) :
            e.tag \in OptionalSections => SectionHasSource(e.tag) /\ ~EmittedEmpty(e)

\* C10: for every level value other than 'data', 'instructions' and 'full',
\* each XML builder (to_xml, to_messages and to_prompt of the three result
\* kinds) fails with a ValueError that names the rejected value and the
\* three accepted values, and returns nothing.
C10_InvalidLevelRaisesValueError ==
    (out.op \in {"to_xml", "to_messages", "to_prompt"}
     /\ out.level \notin {"data", "instructions", "full"})
    => out.ret = [status |-> "raise",
                  exc |-> [type |-> "ValueError",
                           detail |-> [rejected |-> out.level,
                                       use |-> <<"data", "instructions", "full">>]]]

C10_Witness ==
    /\ out.op = "to_messages" /\ out.level = ""
    /\ result.kind = "search"
    /\ result.expanded_chunks # <<>> /\ result.expanded_chunks[1].is_mapping
    /\ out.ret.status = "raise" /\ out.ret.exc.type = "ValueError"

(***************************************************************************)
(* serialize_to_xml: dispatch on the class of the value.  A                *)
(* SmartSearchResult is a SearchResult; a value of another class (a dict,  *)
(* a list, None) is no result.                                             *)
(***************************************************************************)
ClassName(kind) ==
    CASE kind = "search" -> "SearchResult"
      [] kind = "smart" -> "SmartSearchResult"
      [] kind = "hybrid" -> "HybridResult"
      [] kind = "lookup" -> "LookupResult"
      [] OTHER -> kind

\* The classes a class derives from (BaseResult and object left out).
Superclasses(class) == IF class = "SmartSearchResult" THEN {"SearchResult"} ELSE {}

\* Variant of isinstance that compares the class itself only.
IsExactClass(r, class) == ClassName(r.kind) = class

isinstance(r, class) ==
    ClassName(r.kind) = class \/ class \in Superclasses(ClassName(r.kind))

UnsupportedType(r) ==
    Raise("TypeError",
          <<"Tipo nao suportado: ", ClassName(r.kind),
            ". Use SearchResult, HybridResult ou LookupResult.">>)

serialize_to_xml(r, level) ==
    IF isinstance(r, "HybridResult") THEN build_hybrid_xml(r, level)
    ELSE IF isinstance(r, "LookupResult") THEN build_lookup_xml(r, level)
    ELSE IF isinstance(r, "SearchResult") THEN build_xml(r, level)
    ELSE UnsupportedType(r)

SmartSearchResult(r) == [r EXCEPT !.kind = "smart"]

\* Values that are no result: {"raw": "dict"}, a list, None.
ForeignValues == {[kind |-> "dict"], [kind |-> "list"], [kind |-> "NoneType"]}

SerializeInputs ==
    PackageResults
    \cup {SmartSearchResult(r) : r \in {x \in PackageResults : x.kind = "search"}}
    \cup ForeignValues

SerializeToXml(level) ==
    /\ out' = [op |-> "serialize_to_xml", level |-> level,
               ret |-> serialize_to_xml(result, level)]
    /\ UNCHANGED <<result, _XML_CACHE, calls, response, heap, threads, http>>

InitSerialize == result \in SerializeInputs /\ out = Idle /\ NothingCalled

NextSerialize == \E level \in LevelInputs : SerializeToXml(level)

SpecSerialize == InitSerialize /\ [][NextSerialize]_vars

\* C11: serialize_to_xml(result, level) returns what the builder of the
\* result's kind returns (build_hybrid_xml, build_lookup_xml, build_xml for
\* a SearchResult or SmartSearchResult), so the root carries
\* endpoint='hybrid', endpoint='lookup' or no endpoint; a value of any other
\* kind fails with a TypeError naming the unsupported type.
C11_SerializeDispatchesOnKind ==
    out.op = "serialize_to_xml" =>
        CASE result.kind = "hybrid" ->
                /\ out.ret = build_hybrid_xml(result, out.level)
                /\ out.ret.status = "return" => Attr(out.ret.val, "endpoint") = <<"hybrid">>
          [] result.kind = "lookup" ->
                /\ out.ret = build_lookup_xml(result, out.level)
                /\ out.ret.status = "return" => Attr(out.ret.val, "endpoint") = <<"lookup">>
          [] result.kind \in {"search", "smart"} ->
                /\ out.ret = build_xml(result, out.level)
                /\ out.ret.status = "return" => ~HasAttr(out.ret.val, "endpoint")
          [] OTHER ->
                /\ out.ret.status = "raise"
                /\ out.ret.exc.type = "TypeError"
                /\ Contains(out.ret.exc.detail, result.kind)

C11_Witness ==
    /\ Returned("serialize_to_xml")
    /\ result.kind = "smart"
    /\ out.level = "full"
    /\ result.hits # <<>>
    /\ HasChild(out.ret.val, "instrucoes_completas")

(***************************************************************************)
(* Calls in sequence, on several results, with the module-level cache.     *)
(***************************************************************************)
Put(d, k, v) == [x \in DOMAIN d \cup {k} |-> IF x = k THEN v ELSE d[x]]

_build_xml_base(level) ==
    _element_to_string(
        Elem("_base", <<>>,
             IF level = "instructions" THEN <<_build_instrucoes_element>>
             ELSE IF level = "full"
                  THEN <<Elem("instrucoes_completas", <<>>, StaticSubsections, PyNone)>>
             ELSE <<>>,
             PyNone))

\* Variant of CacheHit that takes the cache for a single slot.
CacheHitAnyLevel(cache, level) == DOMAIN cache # {}

\* level in _XML_CACHE
CacheHit(cache, level) == level \in DOMAIN cache

\* The cache after _get_xml_base(level).
_get_xml_base(level) ==
    IF level \in DOMAIN _XML_CACHE THEN _XML_CACHE
    ELSE Put(_XML_CACHE, level, _build_xml_base(level))

\* Three results that share no identifier, text or query.
CallResults ==
    { [SearchResult(<<[SearchHit(<<"D", "#", "A">>) EXCEPT !.text = <<"tA">>]>>,
                    <<[GraphNode(<<"X">>, <<"D", "#", "X">>) EXCEPT !.text = <<"tX">>]>>,
                    <<>>) EXCEPT !.query = <<"q1">>],
      [HybridResult(<<[SearchHit(<<"D", "#", "B">>) EXCEPT !.text = <<"tB">>]>>,
                    <<[GraphNode(<<"Y">>, <<"D", "#", "Y">>) EXCEPT !.text = <<"tY">>]>>)
          EXCEPT !.query = <<"q2">>],
      [LookupResult("found", <<[LookupHit(<<"C">>) EXCEPT !.text = <<"tC">>]>>,
                    <<[LookupHit(<<"P">>) EXCEPT !.text = <<"tP">>]>>, <<>>,
                    EmptyDict, <<>>) EXCEPT !.query = <<"q3">>] }

Called(op, r, level, ret) == [op |-> op, result |-> r, level |-> level, ret |-> ret]

CallToXml(r, level) ==
    /\ Len(calls) < MaxCalls
    /\ result' = r
    /\ out' = [op |-> "to_xml", level |-> level, ret |-> to_xml(r, level)]
    /\ calls' = Append(calls, Called("to_xml", r, level, to_xml(r, level)))
    /\ UNCHANGED <<_XML_CACHE, response, heap, threads, http>>

CallToResponseSchema(r) ==
    /\ Len(calls) < MaxCalls
    /\ result' = r
    /\ out' = [op |-> "to_response_schema", ret |-> to_response_schema(r)]
    /\ calls' = Append(calls, Called("to_response_schema", r, "", to_response_schema(r)))
    /\ UNCHANGED <<_XML_CACHE, response, heap, threads, http>>

GetXmlBase(level) ==
    /\ Len(calls) < MaxCalls
    /\ _XML_CACHE' = _get_xml_base(level)
    /\ out' = [op |-> "_get_xml_base", level |-> level, ret |-> _get_xml_base(level)[level]]
    /\ calls' = Append(calls, Called("_get_xml_base", Idle, level, _get_xml_base(level)[level]))
    /\ UNCHANGED <<result, response, heap, threads, http>>

InitCalls == result \in CallResults /\ out = Idle /\ NothingCalled

NextCalls ==
    \/ \E r \in CallResults, level \in AcceptedLevels : CallToXml(r, level)
    \/ \E r \in CallResults : CallToResponseSchema(r)
    \/ \E level \in AcceptedLevels : GetXmlBase(level)

SpecCalls == InitCalls /\ [][NextCalls]_vars

\* The fragments that name a result: its query, and the identifiers and
\* texts of its hits, nodes, match and parent.
MarkersOfHits(hits) ==
    UNION {Range(h.text) \cup Range(_extract_span_id(h.chunk_id))
           \cup (IF h.span_id = PyNone THEN {} ELSE Range(h.span_id)) : h \in Range(hits)}

MarkersOf(r) ==
    Range(r.query)
    \cup (IF r.kind = "lookup" THEN MarkersOfHits(r.match \o r.parent \o r.siblings)
          ELSE MarkersOfHits(r.hits \o ExpandedOf(r)))

ForeignMarkers(r) == UNION {MarkersOf(x) : x \in CallResults \ {r}} \ MarkersOf(r)

\* Every fragment of a returned document or schema.
ElementFragments(e) ==
    (IF e.text = PyNone THEN {} ELSE Range(e.text))
    \cup UNION {Range(e.attrib[i][2]) : i \in 1..Len(e.attrib)}

OutputFragments(call) ==
    IF call.ret.status # "return" THEN {}
    ELSE IF call.op = "to_response_schema" THEN UNION {Range(id) : id \in Range(EnumOf(call.ret.val))}
    ELSE UNION {ElementFragments(e) : e \in Range(Descendants(call.ret.val))}

BuilderCall(i) == calls[i].op \in {"to_xml", "to_response_schema"}

InstructionTags == {"instrucoes", "instrucoes_completas"}

InstructionBlocks(package) ==
    SelectSeq(package.kids, LAMBDA k : k.tag \in InstructionTags)

\* No child of the root precedes an instruction block.
BlockPrecedesData(package) ==
    \A i \in 1..Len(package.kids) : package.kids[i].tag \in InstructionTags => i = 1

TagsOf(kids) == MapSeq(LAMBDA k : k.tag, kids)

RuleCount(block, section) ==
    IF HasChild(block, section) THEN Len(Children(Child(block, section), "regra")) ELSE 0

OnlyRules(block, section) ==
    HasChild(block, section) => TagsOf(Child(block, section).kids)
                                   = [i \in 1..RuleCount(block, section) |-> "regra"]

PrioritiesTagged(block) ==
    /\ HasChild(block, "anti_alucinacao")
    /\ \A i \in 1..Len(Child(block, "anti_alucinacao").kids) :
          LET rule == Child(block, "anti_alucinacao").kids[i]
          IN  /\ HasAttr(rule, "prioridade")
              /\ Attr(rule, "prioridade") \in {<<"critica">>, <<"alta">>}

LightBlock(package) ==
    /\ TagsOf(InstructionBlocks(package)) = <<"instrucoes">>
    /\ RuleCount(package, "instrucoes") = 7
    /\ OnlyRules(package, "instrucoes")

\* The five sub-sections with their rule counts, then the response contract
\* holding the checklist.
FiveSectionsAndContract(ic) ==
    /\ TagsOf(ic.kids) = <<"papel", "anti_alucinacao", "formato_citacao",
                           "estrutura_resposta", "modo_geracao_documento",
                           "contrato_resposta">>
    /\ Child(ic, "papel").text # <<>>
    /\ RuleCount(ic, "anti_alucinacao") = 3 /\ OnlyRules(ic, "anti_alucinacao")
    /\ PrioritiesTagged(ic)
    /\ RuleCount(ic, "formato_citacao") = 4 /\ OnlyRules(ic, "formato_citacao")
    /\ RuleCount(ic, "estrutura_resposta") = 5 /\ OnlyRules(ic, "estrutura_resposta")
    /\ RuleCount(ic, "modo_geracao_documento") = 3 /\ OnlyRules(ic, "modo_geracao_documento")
    /\ HasChild(Child(ic, "contrato_resposta"), "verificacao_final")

\* The block of a lookup package: role statement, anti-hallucination rules,
\* the contract when there is a match, and the checklist beside it.
LookupSections(ic, r) ==
    /\ TagsOf(ic.kids) = <<"papel", "anti_alucinacao">>
                         \o (IF r.match # <<>> THEN <<"contrato_resposta">> ELSE <<>>)
                         \o <<"verificacao_final">>
    /\ Child(ic, "papel").text # <<>>
    /\ RuleCount(ic, "anti_alucinacao") = 3 /\ OnlyRules(ic, "anti_alucinacao")
    /\ PrioritiesTagged(ic)

FullBlockOf(package) == Child(package, "instrucoes_completas")

\* C13 (as stated): for each of the three result kinds the instruction block
\* matches the level and comes before every data section: none at 'data', one
\* <instrucoes> with 7 rules at 'instructions', and at 'full' one
\* <instrucoes_completas> with the five sub-sections (3 prioritised
\* anti-hallucination rules, 4 citation-format, 5 response-structure and 3
\* document-generation rules) and a <contrato_resposta> holding the checklist.
C13_InstructionBlockMatchesLevel ==
    Returned("to_xml") =>
        /\ BlockPrecedesData(out.ret.val)
        /\ CASE out.level = "data" -> InstructionBlocks(out.ret.val) = <<>>
             [] out.level = "instructions" -> LightBlock(out.ret.val)
             [] out.level = "full" ->
                  /\ TagsOf(InstructionBlocks(out.ret.val)) = <<"instrucoes_completas">>
                  /\ FiveSectionsAndContract(FullBlockOf(out.ret.val))

\* C13 (amended): as above for search and hybrid results; the 'full' block of
\* a lookup result holds the role statement, the 3 prioritised
\* anti-hallucination rules, a <contrato_resposta> exactly when there is a
\* match, and the checklist directly under <instrucoes_completas>.
C13_InstructionBlockMatchesLevelAndKind ==
    Returned("to_xml") =>
        /\ BlockPrecedesData(out.ret.val)
        /\ CASE out.level = "data" -> InstructionBlocks(out.ret.val) = <<>>
             [] out.level = "instructions" -> LightBlock(out.ret.val)
             [] out.level = "full" ->
                  /\ TagsOf(InstructionBlocks(out.ret.val)) = <<"instrucoes_completas">>
                  /\ IF SearchOrHybrid
                     THEN FiveSectionsAndContract(FullBlockOf(out.ret.val))
                     ELSE LookupSections(FullBlockOf(out.ret.val), result)

C13_Witness ==
    /\ FullPackage
    /\ result.kind = "lookup"
    /\ result.match # <<>>
    /\ HasChild(FullBlockOf(out.ret.val), "contrato_resposta")
    /\ HasChild(FullBlockOf(out.ret.val), "verificacao_final")
    /\ Len(out.ret.val.kids) > 2

(***************************************************************************)
(* C14: <hierarquia_normativa> of a lookup package.                        *)
(***************************************************************************)
Count(e, tag) == Len(Children(e, tag))

SiblingsListed(irmaos, siblings) ==
    /\ TagsOf(irmaos.kids) = [i \in 1..Len(siblings) |-> "irmao"]
    /\ \A i \in 1..Len(siblings) :
          /\ Attr(irmaos.kids[i], "id") = siblings[i].span_id
          /\ HasAttr(irmaos.kids[i], "atual")
          /\ (Attr(irmaos.kids[i], "atual") = <<"true">>) <=> siblings[i].is_current

\* C14: a lookup package with status 'found' and a match has one
\* <hierarquia_normativa> with exactly one <dispositivo_principal>, one
\* <artigo_pai> exactly when there is a parent and, exactly when there are
\* siblings, one <dispositivos_irmaos> with one <irmao> per sibling in input
\* order, atual='true' exactly for the siblings flagged is_current; any other
\* lookup package has no <hierarquia_normativa>.
C14_HierarquiaOnlyWhenFoundWithMatch ==
    (Returned("to_xml") /\ result.kind = "lookup") =>
        IF result.status = "found" /\ result.match # <<>>
        THEN /\ Count(out.ret.val, "hierarquia_normativa") = 1
             /\ LET hier == Child(out.ret.val, "hierarquia_normativa")
                IN  /\ Count(hier, "dispositivo_principal") = 1
                    /\ Attr(Child(hier, "dispositivo_principal"), "id")
                          = result.match[1].span_id
                    /\ Count(hier, "artigo_pai") = (IF result.parent # <<>> THEN 1 ELSE 0)
                    /\ Count(hier, "dispositivos_irmaos")
                          = (IF result.siblings # <<>> THEN 1 ELSE 0)
                    /\ result.siblings # <<>> =>
                          SiblingsListed(Child(hier, "dispositivos_irmaos"), result.siblings)
        ELSE Count(out.ret.val, "hierarquia_normativa") = 0

C14_Witness ==
    /\ Returned("to_xml")
    /\ result.kind = "lookup"
    /\ result.status = "found"
    /\ result.parent # <<>>
    /\ Len(result.siblings) = 2
    /\ result.siblings[1].is_current /\ ~result.siblings[2].is_current
    /\ HasChild(out.ret.val, "hierarquia_normativa")
    /\ LET irmaos == Child(Child(out.ret.val, "hierarquia_normativa"), "dispositivos_irmaos")
       IN  /\ Attr(irmaos.kids[1], "atual") = <<"true">>
           /\ Attr(irmaos.kids[2], "atual") = <<"false">>

(***************************************************************************)
(* C15: expanded chunks held as raw mappings.                              *)
(***************************************************************************)
AllMappings(seq) == seq # <<>> /\ \A i \in 1..Len(seq) : seq[i].is_mapping

RelatedListed(ctx, expanded) ==
    /\ TagsOf(ctx.kids) = [i \in 1..Len(expanded) |-> "dispositivo_relacionado"]
    /\ \A i \in 1..Len(expanded) :
          /\ Attr(ctx.kids[i], "id") = OrElse(expanded[i].span_id, <<>>)
          /\ Attr(ctx.kids[i], "lei") = OrElse(expanded[i].document_id, <<>>)
          /\ Attr(ctx.kids[i], "relacao") = expanded[i].relacao
          /\ HasAttr(ctx.kids[i], "hop")

\* C15: for a SearchResult whose expanded chunks are raw mappings, to_xml
\* succeeds at every accepted level and the package has one
\* <contexto_normativo> with one <dispositivo_relacionado> per chunk, in
\* order, carrying the id, lei, relacao and hop attributes.
C15_RawMappingChunksSerialized ==
    ( /\ out.op = "to_xml"
      /\ out.level \in AcceptedLevels
      /\ result.kind = "search"
      /\ AllMappings(result.expanded_chunks) ) =>
        /\ out.ret.status = "return"
        /\ Count(out.ret.val, "contexto_normativo") = 1
        /\ RelatedListed(Child(out.ret.val, "contexto_normativo"), result.expanded_chunks)

(***************************************************************************)
(* Escaping.  A text is a sequence of characters; str.replace of one       *)
(* character by an entity is one pass over the sequence.                   *)
(***************************************************************************)
MaxPieces == 3

\* A text is put together from the four special characters, an ordinary
\* character and the tails of the references "&amp;" and "&lt;" (so that a
\* text may hold an already escaped entity).
TextPieces ==
    { <<"&">>, <<"<">>, <<">">>, <<"\"">>, <<"a">>,
      <<"a", "m", "p", ";">>, <<"l", "t", ";">> }

AmpEntity == <<"&", "a", "m", "p", ";">>
LtEntity == <<"&", "l", "t", ";">>
GtEntity == <<"&", "g", "t", ";">>
QuotEntity == <<"&", "q", "u", "o", "t", ";">>

RECURSIVE replace(_, _, _)
replace(data, old, new) ==
    IF data = <<>> THEN <<>>
    ELSE (IF Head(data) = old THEN new ELSE <<Head(data)>>) \o replace(Tail(data), old, new)

HasSubstring(t, sub) ==
    \E i \in 0..(Len(t) - Len(sub)) : SubSeq(t, i + 1, i + Len(sub)) = sub

\* xml.sax.saxutils.escape(data, {'"': "&quot;"}): ampersand first, then
\* '>' and '<', then the extra entity.
_sax_escape(data) ==
    replace(replace(replace(replace(data, "&", AmpEntity), ">", GtEntity), "<", LtEntity),
            "\"", QuotEntity)

escape_xml(text) ==
    IF text = PyNone THEN <<>>
    ELSE IF text = <<>> THEN <<>>
    ELSE _sax_escape(text)

\* Variant of _escape_cdata that replaces the ampersand last.
_escape_cdata_amp_last(text) ==
    replace(replace(replace(text, "<", LtEntity), ">", GtEntity), "&", AmpEntity)

\* ElementTree's serializer: character data and attribute values.
_escape_cdata(text) ==
    replace(replace(replace(text, "&", AmpEntity), "<", LtEntity), ">", GtEntity)

_escape_attrib(text) ==
    replace(replace(replace(replace(text, "&", AmpEntity), "<", LtEntity), ">", GtEntity),
            "\"", QuotEntity)

\* ET.tostring: the markup of an element, text and attribute values escaped.
RECURSIVE tostring(_)
tostring(e) ==
    [tag |-> e.tag,
     attrib |-> [i \in 1..Len(e.attrib) |-> <<e.attrib[i][1], _escape_attrib(e.attrib[i][2])>>],
     kids |-> MapSeq(tostring, e.kids),
     text |-> IF e.text = PyNone THEN PyNone ELSE _escape_cdata(e.text)]

\* The XML parser: a reference "&name;" stands for its character; a bare
\* '&', a '<' in content and a '"' inside a quoted attribute value are not
\* well-formed.
References ==
    { <<AmpEntity, "&">>, <<LtEntity, "<">>, <<GtEntity, ">">>, <<QuotEntity, "\"">> }

StartsWith(t, prefix) == Len(t) >= Len(prefix) /\ SubSeq(t, 1, Len(prefix)) = prefix

Drop(t, n) == SubSeq(t, n + 1, Len(t))

RECURSIVE WellFormed(_, _)
WellFormed(markup, forbidden) ==
    IF markup = <<>> THEN TRUE
    ELSE IF Head(markup) = "&"
         THEN \E ref \in References :
                  StartsWith(markup, ref[1]) /\ WellFormed(Drop(markup, Len(ref[1])), forbidden)
    ELSE Head(markup) \notin forbidden /\ WellFormed(Tail(markup), forbidden)

RECURSIVE unescape(_)
unescape(markup) ==
    IF markup = <<>> THEN <<>>
    ELSE IF Head(markup) = "&"
         THEN LET ref == CHOOSE r \in References : StartsWith(markup, r[1])
              IN  <<ref[2]>> \o unescape(Drop(markup, Len(ref[1])))
    ELSE <<Head(markup)>> \o unescape(Tail(markup))

RECURSIVE ParsesWithoutError(_)
ParsesWithoutError(m) ==
    /\ m.text = PyNone \/ WellFormed(m.text, {"<"})
    /\ \A i \in 1..Len(m.attrib) : WellFormed(m.attrib[i][2], {"<", "\""})
    /\ \A k \in 1..Len(m.kids) : ParsesWithoutError(m.kids[k])

RECURSIVE ParsedElement(_)
ParsedElement(m) ==
    [tag |-> m.tag,
     attrib |-> [i \in 1..Len(m.attrib) |-> <<m.attrib[i][1], unescape(m.attrib[i][2])>>],
     kids |-> MapSeq(ParsedElement, m.kids),
     text |-> IF m.text = PyNone THEN PyNone ELSE unescape(m.text)]

\* ET.fromstring
fromstring(m) ==
    IF ParsesWithoutError(m) THEN Return(ParsedElement(m))
    ELSE Raise("ParseError", <<"not well-formed (invalid token)">>)

(***************************************************************************)
(* The escaping specification: a search result with one cross-referenced   *)
(* hit whose text and origin_reference are the same text.                  *)
(***************************************************************************)
EscapeTexts == {PyNone} \cup {Concat(ps) : ps \in SeqsUpTo(TextPieces, MaxPieces)}

EscapeHit(t) ==
    [SearchHit(<<"D", "#", "A">>) EXCEPT !.text = t, !.origin_type = <<"citation">>,
                                          !.origin_reference = t]

EscapeResults == {SearchResult(<<EscapeHit(t)>>, <<>>, <<>>) : t \in EscapeTexts}

EscapeXml ==
    /\ out' = [op |-> "escape_xml", ret |-> Return(escape_xml(result.hits[1].text))]
    /\ UNCHANGED <<result, _XML_CACHE, calls, response, heap, threads, http>>

\* root = ET.fromstring(r.to_xml(level))
ParseToXml(level) ==
    /\ out' = [op |-> "parse_to_xml", level |-> level,
               ret |-> LET xml == to_xml(result, level)
                       IN  IF xml.status # "return" THEN xml
                           ELSE fromstring(tostring(xml.val))]
    /\ UNCHANGED <<result, _XML_CACHE, calls, response, heap, threads, http>>

InitEscape == result \in EscapeResults /\ out = Idle /\ NothingCalled

NextEscape ==
    \/ EscapeXml
    \/ \E level \in AcceptedLevels : ParseToXml(level)

SpecEscape == InitEscape /\ [][NextEscape]_vars

EscapedPerCharacter(text) ==
    Concat([i \in 1..Len(text) |->
              CASE text[i] = "&" -> AmpEntity
                [] text[i] = "<" -> LtEntity
                [] text[i] = ">" -> GtEntity
                [] text[i] = "\"" -> QuotEntity
                [] OTHER -> <<text[i]>>])

\* C16: escape_xml replaces each of &, <, > and " by its entity and never
\* yields '&amp;amp;', whatever the input, one that already holds '&amp;'
\* included; None and the empty string give the empty string.
C16_EscapeNeverDoubles ==
    out.op = "escape_xml" =>
        LET text == result.hits[1].text
        IN  /\ Falsy(text) => out.ret.val = <<>>
            /\ Truthy(text) => out.ret.val = EscapedPerCharacter(text)
            /\ ~HasSubstring(out.ret.val, AmpEntity \o <<"a", "m", "p", ";">>)

(***************************************************************************)
(* C17: the escaping round trip through to_xml and the parser.             *)
(***************************************************************************)
ParsedDispositivo(root) ==
    Child(Child(Child(root, "base_normativa"), "fonte"), "dispositivo")

\* C17: for every hit whose text and origin_reference hold any mix of &, <,
\* >, " and ordinary characters, the XML of to_xml parses without error, and
\* the parsed text of the hit's <dispositivo> and its parsed origem_ref
\* attribute equal the original strings exactly.
C17_EscapingRoundTrips ==
    (out.op = "parse_to_xml" /\ Truthy(result.hits[1].text)) =>
        /\ out.ret.status = "return"
        /\ ParsedDispositivo(out.ret.val).text = result.hits[1].text
        /\ HasAttr(ParsedDispositivo(out.ret.val), "origem_ref")
        /\ Attr(ParsedDispositivo(out.ret.val), "origem_ref") = result.hits[1].origin_reference

C17_Witness ==
    /\ out.op = "parse_to_xml"
    /\ result.hits[1].text = <<"&", "a", "m", "p", ";", "\"">>
    /\ out.ret.status = "return"
    /\ ParsedDispositivo(out.ret.val).text = <<"&", "a", "m", "p", ";", "\"">>
    /\ Attr(ParsedDispositivo(out.ret.val), "origem_ref") = <<"&", "a", "m", "p", ";", "\"">>
    /\ tostring(to_xml(result, out.level).val) # to_xml(result, out.level).val

(***************************************************************************)
(* The confidence specification: SearchResult.confidence over hit lists    *)
(* whose scores (in hundredths) lie below, inside and at the ends of       *)
(* [0, 1].                                                                 *)
(***************************************************************************)
ConfidenceScores == {-50, 0, 1, 50, 80, 90, 91, 95, 100}

ScoredHit(score) == [SearchHit(<<"D", "#", "A">>) EXCEPT !.score = score]

ConfidenceResults ==
    {SearchResult(hs, <<>>, <<>>) :
        hs \in SeqsUpTo({ScoredHit(sc) : sc \in ConfidenceScores}, MaxHits)}

Confidence ==
    /\ out' = [op |-> "confidence", ret |-> Return(_calculate_confidence(result))]
    /\ UNCHANGED <<result, _XML_CACHE, calls, response, heap, threads, http>>

InitConfidence == result \in ConfidenceResults /\ out = Idle /\ NothingCalled

NextConfidence == Confidence

SpecConfidence == InitConfidence /\ [][NextConfidence]_vars

Abs(n) == IF n < 0 THEN -n ELSE n

AllScoresZero(hits) == \A i \in 1..Len(hits) : hits[i].score = 0

\* The value the formula gives for a non-empty hit list, as the fraction
\* num/den of 1/10000 units: the weighted average 100 * sum(s^3) / sum(s^2),
\* times 4/5 for fewer than 2 hits, plus 500 for a top score above 90,
\* clamped to [0, 10000].
FormulaDen(hits) == 5 * SumOf(hits, 2)

FormulaNum(hits) ==
    LET average == 100 * SumOf(hits, 3)
        scaled == IF Len(hits) < 2 THEN 4 * average ELSE 5 * average
        bonus == IF hits[1].score > 90 THEN 500 * FormulaDen(hits) ELSE 0
    IN  Min(10000 * FormulaDen(hits), Max(0, scaled + bonus))

MaxItems == 1

JsonKeys(d) == d.nulls \cup DOMAIN d.vals

\* dict.get(key, default): the default stands in for an absent key only; a
\* key that holds null gives None (NoInt in a numeric field, "<None>" in
\* the status).
GetOr(d, k, default) ==
    IF k \in d.nulls THEN PyNone ELSE IF k \in DOMAIN d.vals THEN d.vals[k] ELSE default

GetNumberOr(d, k, default) ==
    IF k \in d.nulls THEN NoInt ELSE IF k \in DOMAIN d.vals THEN d.vals[k] ELSE default

\* A flag (the responses of the specification hold no null flag).
GetFlagOr(d, k, default) == IF k \in DOMAIN d.vals THEN d.vals[k] ELSE default

GetStatusOr(d, k, default) ==
    IF k \in d.nulls THEN "<None>" ELSE IF k \in DOMAIN d.vals THEN d.vals[k] ELSE default

\* dict.get(key)
GetOrNone(d, k) == GetOr(d, k, PyNone)

\* "for x in response.get(key, [])" raises TypeError when the key holds null.
NotIterable(d, k) == k \in d.nulls

ListOf(d, k) == IF k \in DOMAIN d.vals THEN d.vals[k] ELSE <<>>

\* "if match_data:" holds for a non-empty object only.
ObjectGiven(json, k) == k \in DOMAIN json.vals /\ JsonKeys(json.vals[k]) # {}

NoneTypeNotIterable == Raise("TypeError", <<"'NoneType' object is not iterable">>)

\* The names vectorgov.models defines (ExpandedChunk and
\* CitationExpansionStats were removed in v0.15.0).
ModelsNames ==
    {"Metadata", "Hit", "BaseResult", "SearchResult", "SmartSearchResult", "HybridResult",
     "LookupCandidate", "LookupResult", "TokenStats"}

ImportFrom(names) ==
    IF names \subseteq ModelsNames THEN <<>>
    ELSE <<Raise("ImportError",
                 <<"cannot import name", CHOOSE n \in names : n \notin ModelsNames,
                   "from 'vectorgov.models'">>)>>

\* str(metadata) is Metadata.__repr__, which starts with
\* self.document_type.upper(); it is evaluated as the default of
\* item.get("source", str(metadata)) whether or not "source" is present.
MetadataStrFails(item) == GetOr(item, "tipo_documento", <<>>) = PyNone

NoneHasNoUpper == Raise("AttributeError", <<"'NoneType' object has no attribute 'upper'">>)

CommonHitFields(item) ==
    [DefaultHit EXCEPT
        !.text = GetOr(item, "text", <<>>),
        !.score = GetNumberOr(item, "score", 0),
        !.chunk_id = GetOrNone(item, "chunk_id"),
        !.md_type = GetOr(item, "tipo_documento", <<>>),
        !.md_number = GetOr(item, "numero", <<>>),
        !.md_year = GetNumberOr(item, "ano", 0),
        !.md_article = GetOrNone(item, "article_number"),
        !.nota_especialista = GetOrNone(item, "nota_especialista"),
        !.jurisprudencia_tcu = GetOrNone(item, "jurisprudencia_tcu"),
        !.acordao_tcu_key = GetOrNone(item, "acordao_tcu_key"),
        !.acordao_tcu_link = GetOrNone(item, "acordao_tcu_link"),
        !.stitched_text = GetOrNone(item, "stitched_text"),
        !.pure_rerank_score = GetNumberOr(item, "pure_rerank_score", NoInt)]

SearchItemHit(item) ==
    [CommonHitFields(item) EXCEPT
        !.md_paragraph = GetOrNone(item, "paragraph"),
        !.md_item = GetOrNone(item, "inciso"),
        !.document_id = GetOrNone(item, "document_id"),
        !.device_type = GetOrNone(item, "device_type"),
        !.article_number = GetOrNone(item, "article_number"),
        !.origin_type = GetOrNone(item, "origin_type"),
        !.origin_reference = GetOrNone(item, "origin_reference")]

HybridItemHit(item) ==
    [CommonHitFields(item) EXCEPT !.md_device_type = GetOrNone(item, "device_type")]

ExpandedChunk(ec) ==
    [DefaultHit EXCEPT
        !.chunk_id = GetOr(ec, "chunk_id", <<>>),
        !.text = GetOr(ec, "text", <<>>),
        !.document_id = GetOr(ec, "document_id", <<>>),
        !.span_id = GetOr(ec, "span_id", <<>>),
        !.device_type = GetOr(ec, "device_type", <<"article">>)]

CitationExpansionStats(es) ==
    [is_mapping |-> FALSE,
     expanded_chunks_count |-> GetNumberOr(es, "expanded_chunks_count", 0),
     citations_scanned_count |-> GetNumberOr(es, "citations_scanned_count", 0),
     citations_resolved_count |-> GetNumberOr(es, "citations_resolved_count", 0),
     expansion_time_ms |-> GetNumberOr(es, "expansion_time_ms", 0)]

_parse_search_response(query, json, mode) ==
    IF ImportFrom({"ExpandedChunk", "CitationExpansionStats"}) # <<>>
    THEN ImportFrom({"ExpandedChunk", "CitationExpansionStats"})[1]
    ELSE IF NotIterable(json, "hits") THEN NoneTypeNotIterable
    ELSE IF \E i \in 1..Len(ListOf(json, "hits")) : MetadataStrFails(ListOf(json, "hits")[i])
         THEN NoneHasNoUpper
    ELSE IF NotIterable(json, "expanded_chunks") THEN NoneTypeNotIterable
    ELSE Return([SearchResult(MapSeq(SearchItemHit, ListOf(json, "hits")),
                              MapSeq(ExpandedChunk, ListOf(json, "expanded_chunks")),
                              IF ObjectGiven(json, "expansion_stats")
                              THEN <<CitationExpansionStats(json.vals["expansion_stats"])>>
                              ELSE <<>>)
                 EXCEPT !.query = query, !.mode = mode,
                        !.latency_ms = GetNumberOr(json, "latency_ms", 0),
                        !.cached = GetFlagOr(json, "cached", FALSE),
                        !.query_id = GetOr(json, "query_id", <<>>),
                        !.raw_response = json])

GraphNodeHit(gn) ==
    [DefaultHit EXCEPT
        !.chunk_id = GetOr(gn, "chunk_id", <<>>),
        !.text = GetOr(gn, "text", <<>>),
        !.score = 0,
        !.md_type = GetOr(gn, "tipo_documento", <<>>),
        !.document_id = GetOr(gn, "document_id", <<>>),
        !.span_id = GetOr(gn, "span_id", <<>>),
        !.device_type = GetOr(gn, "device_type", <<"article">>),
        !.hop = GetNumberOr(gn, "hop", 1),
        !.frequency = GetNumberOr(gn, "frequency", 0),
        !.relacao = GetOr(gn, "relacao", <<"citacao">>)]

_parse_hybrid_response(query, json) ==
    IF NotIterable(json, "direct_evidence") THEN NoneTypeNotIterable
    ELSE IF \E i \in 1..Len(ListOf(json, "direct_evidence")) :
                MetadataStrFails(ListOf(json, "direct_evidence")[i])
         THEN NoneHasNoUpper
    ELSE IF NotIterable(json, "graph_expansion") THEN NoneTypeNotIterable
    ELSE Return([HybridResult(MapSeq(HybridItemHit, ListOf(json, "direct_evidence")),
                              MapSeq(GraphNodeHit, ListOf(json, "graph_expansion")))
                 EXCEPT !.query = query,
                        !.stats = IF "stats" \in DOMAIN json.vals THEN json.vals["stats"] ELSE EmptyDict,
                        !.confidence = GetNumberOr(json, "confidence", 0),
                        !.latency_ms = GetNumberOr(json, "search_time_ms",
                                                   GetNumberOr(json, "latency_ms", 0)),
                        !.hyde_used = GetFlagOr(json, "hyde_used", FALSE),
                        !.cached = GetFlagOr(json, "cached", FALSE),
                        !.mode = GetOr(json, "mode", <<"hybrid">>),
                        !.raw_response = json])


MatchHit(data) ==
    [DefaultHit EXCEPT
        !.span_id = GetOr(data, "span_id", <<>>),
        !.document_id = GetOr(data, "document_id", <<>>),
        !.text = GetOr(data, "text", <<>>),
        !.score = 0,
        !.md_type = GetOr(data, "tipo_documento", <<>>),
        !.device_type = GetOr(data, "device_type", <<>>),
        !.article_number = GetOrNone(data, "article_number")]

ParentHit(data) ==
    [DefaultHit EXCEPT
        !.span_id = GetOr(data, "span_id", <<>>),
        !.text = GetOr(data, "text", <<>>),
        !.score = 0,
        !.device_type = GetOr(data, "device_type", <<>>)]

SiblingHit(data) ==
    [DefaultHit EXCEPT
        !.span_id = GetOr(data, "span_id", <<>>),
        !.device_type = GetOr(data, "device_type", <<>>),
        !.text = GetOr(data, "text", <<>>),
        !.score = 0,
        !.is_current = GetFlagOr(data, "is_current", FALSE)]

ParsedCandidate(data) ==
    [document_id |-> GetOr(data, "document_id", <<>>),
     node_id |-> GetOr(data, "node_id", <<>>),
     text |-> GetOr(data, "text", <<>>),
     tipo_documento |-> GetOrNone(data, "tipo_documento")]

_parse_lookup_response(reference, json) ==
    IF ImportFrom({"LookupCandidate"}) # <<>> THEN ImportFrom({"LookupCandidate"})[1]
    ELSE IF NotIterable(json, "siblings") THEN NoneTypeNotIterable
    ELSE IF NotIterable(json, "candidates") THEN NoneTypeNotIterable
    ELSE Return([LookupResult(GetStatusOr(json, "status", "not_found"),
                              IF ObjectGiven(json, "match")
                              THEN <<MatchHit(json.vals["match"])>> ELSE <<>>,
                              IF ObjectGiven(json, "parent")
                              THEN <<ParentHit(json.vals["parent"])>> ELSE <<>>,
                              MapSeq(SiblingHit, ListOf(json, "siblings")),
                              IF "resolved" \in DOMAIN json.vals
                              THEN json.vals["resolved"] ELSE EmptyDict,
                              MapSeq(ParsedCandidate, ListOf(json, "candidates")))
                 EXCEPT !.query = reference,
                        !.latency_ms = GetNumberOr(json, "elapsed_ms", 0),
                        !.raw_response = json])

(***************************************************************************)
(* The parsing specification: responses in which each key is absent, null *)
(* or given, one unknown key included.                                     *)
(***************************************************************************)
KeyStates == {"absent", "null", "given"}

JsonObject(sel, given) ==
    [nulls |-> {k \in DOMAIN sel : sel[k] = "null"},
     vals |-> [k \in {x \in DOMAIN sel : sel[x] = "given"} |-> given[k]]]

EmptyObject == [nulls |-> {}, vals |-> EmptyDict]

\* Every object whose keys are absent, null or given as in `given`.
DictsOver(given) == {JsonObject(sel, given) : sel \in [DOMAIN given -> KeyStates]}

ItemDicts == DictsOver([text |-> <<"t1">>, tipo_documento |-> <<"LEI">>])
NodeDicts == DictsOver([hop |-> 2])
MatchDicts == DictsOver([text |-> <<"t1">>])
SiblingDicts ==
    {d \in DictsOver([span_id |-> <<"S">>, is_current |-> TRUE]) : "is_current" \notin d.nulls}

SearchResponses ==
    UNION {DictsOver([hits |-> hs, expanded_chunks |-> <<>>, trace_id |-> <<"x">>]) :
              hs \in SeqsUpTo(ItemDicts, MaxItems)}

HybridResponses ==
    UNION {DictsOver([direct_evidence |-> de, graph_expansion |-> ge,
                      trace_id |-> <<"x">>]) :
              de \in SeqsUpTo(ItemDicts, MaxItems), ge \in SeqsUpTo(NodeDicts, MaxItems)}

LookupResponses ==
    UNION {DictsOver([status |-> "found", match |-> m, siblings |-> sb,
                      candidates |-> <<EmptyObject>>]) :
              m \in MatchDicts, sb \in SeqsUpTo(SiblingDicts, MaxItems)}

Responses ==
    {[endpoint |-> "search", json |-> j] : j \in SearchResponses}
    \cup {[endpoint |-> "hybrid", json |-> j] : j \in HybridResponses}
    \cup {[endpoint |-> "lookup", json |-> j] : j \in LookupResponses}

NoResult == [kind |-> "none"]

Parsed(op, parsed) ==
    /\ out' = [op |-> op, ret |-> parsed]
    /\ result' = IF parsed.status = "return" THEN parsed.val ELSE result
    /\ UNCHANGED <<_XML_CACHE, calls, response, heap, threads, http>>

ParseSearchResponse ==
    /\ response.endpoint = "search"
    /\ Parsed("_parse_search_response",
              _parse_search_response(<<"q">>, response.json, <<"balanced">>))

ParseHybridResponse ==
    /\ response.endpoint = "hybrid"
    /\ Parsed("_parse_hybrid_response", _parse_hybrid_response(<<"q">>, response.json))

ParseLookupResponse ==
    /\ response.endpoint = "lookup"
    /\ Parsed("_parse_lookup_response", _parse_lookup_response(<<"Art. 1">>, response.json))

InitParse ==
    /\ response \in Responses
    /\ result = NoResult
    /\ out = Idle
    /\ _XML_CACHE = EmptyDict
    /\ calls = <<>>
    /\ heap = <<>>
    /\ threads = <<>>
    /\ http = <<>>

NextParse ==
    \/ ParseSearchResponse
    \/ ParseHybridResponse
    \/ ParseLookupResponse

SpecParse == InitParse /\ [][NextParse]_vars

Missing(d, k) == k \notin DOMAIN d.vals

ItemsOf(json, k) == IF Missing(json, k) THEN <<>> ELSE json.vals[k]

HitDefaultsTaken(hits, items) ==
    /\ Len(hits) = Len(items)
    /\ \A i \in 1..Len(items) :
          /\ Missing(items[i], "text") => hits[i].text = <<>>
          /\ Missing(items[i], "tipo_documento") => hits[i].md_type = <<>>

NodeDefaultsTaken(nodes, items) ==
    /\ Len(nodes) = Len(items)
    /\ \A i \in 1..Len(items) :
          /\ nodes[i].span_id = <<>>
          /\ Missing(items[i], "hop") => nodes[i].hop = 1

DefaultsTaken(r, json) ==
    CASE r.kind = "search" -> HitDefaultsTaken(r.hits, ItemsOf(json, "hits"))
      [] r.kind = "hybrid" ->
            /\ HitDefaultsTaken(r.hits, ItemsOf(json, "direct_evidence"))
            /\ NodeDefaultsTaken(r.graph_nodes, ItemsOf(json, "graph_expansion"))
      [] r.kind = "lookup" ->
            /\ Missing(json, "status") => r.status = "not_found"
            /\ Missing(json, "match") => r.match = <<>>
            /\ ObjectGiven(json, "match") =>
                  /\ r.match # <<>>
                  /\ r.match[1].span_id = <<>>
                  /\ Missing(json.vals["match"], "text") => r.match[1].text = <<>>
            /\ Len(r.siblings) = Len(ItemsOf(json, "siblings"))
            /\ \A i \in 1..Len(r.siblings) :
                  /\ Missing(json.vals["siblings"][i], "span_id")
                        => r.siblings[i].span_id = <<>>
                  /\ Missing(json.vals["siblings"][i], "is_current")
                        => ~r.siblings[i].is_current
            /\ Len(r.candidates) = Len(ItemsOf(json, "candidates"))

ParseOps == {"_parse_search_response", "_parse_hybrid_response", "_parse_lookup_response"}

\* C19: no parser raises for a response in which any optional key is
\* absent or null; every missing field takes its default (empty string, 0,
\* empty sequence, False) and the response, unknown keys included, is kept
\* unchanged as the raw response of the result.
C19_ParsersNeverRaise ==
    out.op \in ParseOps =>
        /\ out.ret.status = "return"
        /\ result.raw_response = response.json
        /\ DefaultsTaken(result, response.json)

(***************************************************************************)
(* C20: to_messages with a level.                                          *)
(***************************************************************************)
MessagesReturned ==
    out.op = "to_messages" /\ out.level \in AcceptedLevels /\ out.ret.status = "return"

SystemThenUser(messages, level) ==
    /\ Len(messages) = 2
    /\ messages[1].role = "system"
    /\ to_xml(result, level).status = "return"
    /\ messages[1].content = to_xml(result, level).val
    /\ messages[2].role = "user"

\* C20 (as stated): for every result kind and valid level, to_messages(query,
\* level) returns two entries: 'system' with exactly the XML of to_xml(level),
\* then 'user' with exactly the query passed by the caller, the result's own
\* query (reference) only when none is passed.
C20_UserEntryIsPassedQuery ==
    MessagesReturned =>
        /\ SystemThenUser(out.ret.val, out.level)
        /\ out.ret.val[2].content = (IF out.query # PyNone THEN out.query ELSE result.query)

\* C20 (amended): as above, the 'user' entry being the query passed by the
\* caller when it is not empty, and the result's own query (reference) when
\* no query or an empty one is passed.
C20_UserEntryIsPassedQueryUnlessEmpty ==
    MessagesReturned =>
        /\ SystemThenUser(out.ret.val, out.level)
        /\ out.ret.val[2].content
             = (IF out.query # PyNone /\ out.query # <<>> THEN out.query ELSE result.query)

C20_Witness ==
    /\ MessagesReturned
    /\ result.kind = "lookup"
    /\ out.level = "full"
    /\ out.query = <<>>
    /\ out.ret.val[2].content = <<"Art. 1">>
    /\ HasChild(out.ret.val[1].content, "instrucoes_completas")

(***************************************************************************)
(* to_dict (models.py).  Python values are objects on a heap: a dict or a  *)
(* list holds references, so dict(x) makes a new dict whose entries refer  *)
(* to the very objects x refers to.  heap is the sequence of objects, an   *)
(* address is an index into it, 0 is None.  An object is                   *)
(* [type, val, items]: items is the ordered sequence of [k, ref] entries   *)
(* of a dict (k the key) or a list (k empty), val the text of a scalar.    *)
(* A value written out in full (a JSON document) has the same shape with   *)
(* [k, v] entries, v being a value.                                        *)
(***************************************************************************)
Scalar(type, val) == [type |-> type, val |-> val, items |-> <<>>]
PyStr(t) == Scalar("str", OrElse(t, <<>>))
PyInt(n) == Scalar("int", py_str_int(n))
PyBool(b) == Scalar("bool", lower_bool(b))
Entry(k, v) == [k |-> k, v |-> v]
PyDict(entries) == [type |-> "dict", val |-> <<>>, items |-> entries]
PyList(vs) == [type |-> "list", val |-> <<>>, items |-> [i \in 1..Len(vs) |-> Entry("", vs[i])]]

\* Stores a value on the heap, innermost objects first: [heap, at].
RECURSIVE Alloc(_, _), AllocItems(_, _)
Alloc(h, v) ==
    LET kids == AllocItems(h, v.items)
    IN  [heap |-> Append(kids.heap, [type |-> v.type, val |-> v.val, items |-> kids.refs]),
         at |-> Len(kids.heap) + 1]

AllocItems(h, entries) ==
    IF entries = <<>> THEN [heap |-> h, refs |-> <<>>]
    ELSE LET first == Alloc(h, entries[1].v)
             rest == AllocItems(first.heap, Tail(entries))
         IN  [heap |-> rest.heap,
              refs |-> <<[k |-> entries[1].k, ref |-> first.at]>> \o rest.refs]

\* The value an address stands for, written out in full.
RECURSIVE Deep(_, _)
Deep(h, at) ==
    [type |-> h[at].type, val |-> h[at].val,
     items |-> [i \in 1..Len(h[at].items) |->
                   Entry(h[at].items[i].k, Deep(h, h[at].items[i].ref))]]

\* The objects reachable from an address, itself included.
RECURSIVE Reach(_, _)
Reach(h, at) ==
    {at} \cup UNION {Reach(h, h[at].items[i].ref) : i \in 1..Len(h[at].items)}

\* dict(x): a new dict object with the entries (references) of x.
ShallowCopy(h, at) == [heap |-> Append(h, h[at]), at |-> Len(h) + 1]

\* The mapping to_dict rebuilds from the fields when no raw response is kept.
HitDict(hit) ==
    PyDict(<<Entry("text", PyStr(hit.text)), Entry("score", PyInt(hit.score)),
             Entry("source", PyStr(hit.source)),
             Entry("metadata",
                   PyDict(<<Entry("document_type", PyStr(hit.md_type)),
                            Entry("document_number", PyStr(hit.md_number)),
                            Entry("year", PyInt(hit.md_year)),
                            Entry("article", PyStr(hit.md_article)),
                            Entry("paragraph", PyStr(hit.md_paragraph)),
                            Entry("item", PyStr(hit.md_item))>>))>>
           \o (IF Truthy(hit.nota_especialista)
               THEN <<Entry("nota_especialista", PyStr(hit.nota_especialista))>> ELSE <<>>)
           \o (IF Truthy(hit.jurisprudencia_tcu)
               THEN <<Entry("jurisprudencia_tcu", PyStr(hit.jurisprudencia_tcu))>> ELSE <<>>)
           \o (IF Truthy(hit.acordao_tcu_key)
               THEN <<Entry("acordao_tcu_key", PyStr(hit.acordao_tcu_key))>> ELSE <<>>)
           \o (IF Truthy(hit.acordao_tcu_link)
               THEN <<Entry("acordao_tcu_link", PyStr(hit.acordao_tcu_link))>> ELSE <<>>))

SearchResult_rebuilt(r) ==
    PyDict(<<Entry("query", PyStr(r.query)),
             Entry("hits", PyList([i \in 1..Len(r.hits) |-> HitDict(r.hits[i])])),
             Entry("total", PyInt(r.total)),
             Entry("latency_ms", PyInt(r.latency_ms)),
             Entry("cached", PyBool(r.cached)),
             Entry("query_id", PyStr(r.query_id)),
             Entry("mode", PyStr(r.mode))>>)

HybridResult_rebuilt(r) ==
    PyDict(<<Entry("query", PyStr(r.query)),
             Entry("direct_evidence",
                   PyList([i \in 1..Len(r.hits) |->
                              PyDict(<<Entry("text", PyStr(r.hits[i].text)),
                                       Entry("score", PyInt(r.hits[i].score)),
                                       Entry("source", PyStr(r.hits[i].source))>>)])),
             Entry("graph_expansion",
                   PyList([i \in 1..Len(r.graph_nodes) |->
                              PyDict(<<Entry("chunk_id", PyStr(r.graph_nodes[i].chunk_id)),
                                       Entry("text", PyStr(r.graph_nodes[i].text)),
                                       Entry("hop", PyInt(r.graph_nodes[i].hop)),
                                       Entry("frequency", PyInt(r.graph_nodes[i].frequency))>>)])),
             Entry("confidence", PyInt(r.confidence)),
             Entry("cached", PyBool(r.cached)),
             Entry("mode", PyStr(r.mode))>>)

\* SearchResult.to_dict / HybridResult.to_dict: [heap, at] of the mapping returned.
to_dict(h, r) ==
    IF r._raw_response # 0 THEN ShallowCopy(h, r._raw_response)
    ELSE IF r.kind = "search" THEN Alloc(h, SearchResult_rebuilt(r))
    ELSE Alloc(h, HybridResult_rebuilt(r))

\* d[k] = v on the dict at the address: replaces the entry of k or adds one.
SetItem(h, at, k, ref) ==
    LET entries == h[at].items
        new == IF \E i \in 1..Len(entries) : entries[i].k = k
               THEN [i \in 1..Len(entries) |->
                        IF entries[i].k = k THEN [k |-> k, ref |-> ref] ELSE entries[i]]
               ELSE Append(entries, [k |-> k, ref |-> ref])
    IN  [h EXCEPT ![at].items = new]

\* l.append(v) on the list at the address.
ListAppend(h, at, ref) == [h EXCEPT ![at].items = Append(@, [k |-> "", ref |-> ref])]

\* Raw responses of the server: the one of test_to_dict_with_raw_response,
\* one with hits and a query interpretation, and an empty one.
RawResponses ==
    { PyDict(<<Entry("query", PyStr(<<"test">>)), Entry("hits", PyList(<<>>)),
               Entry("custom_field", PyInt(42))>>),
      PyDict(<<Entry("hits", PyList(<<PyDict(<<Entry("text", PyStr(<<"t">>))>>)>>)),
               Entry("query_interpretation",
                     PyDict(<<Entry("rewritten_query", PyStr(<<"q2">>))>>))>>),
      PyDict(<<>>) }

NoResponse == Scalar("NoneType", <<>>)

DictHit ==
    [f \in DOMAIN DefaultHit \cup {"source"} |->
        IF f = "source" THEN <<"Lei 1/2021">> ELSE DefaultHit[f]]

\* A result before its raw response is attached (no expanded chunks, no stats).
DictResults ==
    { [kind |-> kind, query |-> <<"q">>, hits |-> hits, graph_nodes |-> hits,
       total |-> Len(hits), latency_ms |-> 150, cached |-> FALSE,
       query_id |-> <<"q-1">>, mode |-> <<"balanced">>, confidence |-> 0,
       _raw_response |-> 0] :
        kind \in {"search", "hybrid"}, hits \in {<<>>, <<DictHit>>} }

\* result.to_dict()
ToDict ==
    /\ Len(calls) < MaxCalls
    /\ LET d == to_dict(heap, result)
       IN  /\ heap' = d.heap
           /\ out' = [op |-> "to_dict", ret |-> Return(d.at), changed |-> FALSE]
    /\ calls' = Append(calls, "to_dict")
    /\ UNCHANGED <<result, _XML_CACHE, response, threads, http>>

\* The caller changes the mapping it was given, at any depth:
\* target[k] = "x" on a dict, target.append("x") on a list.
ChangeReturned ==
    /\ Len(calls) < MaxCalls
    /\ out # Idle
    /\ \E target \in Reach(heap, out.ret.val) :
          LET new == Alloc(heap, PyStr(<<"x">>))
          IN  \/ /\ heap[target].type = "dict"
                 /\ \E k \in {"hits", "added"} : heap' = SetItem(new.heap, target, k, new.at)
              \/ /\ heap[target].type = "list"
                 /\ heap' = ListAppend(new.heap, target, new.at)
    /\ out' = [out EXCEPT !.changed = TRUE]
    /\ calls' = Append(calls, "change")
    /\ UNCHANGED <<result, _XML_CACHE, response, threads, http>>

InitDict ==
    /\ \E r \in DictResults :
          \/ /\ result = r
             /\ response = NoResponse
             /\ heap = <<>>
          \/ \E raw \in RawResponses :
                /\ response = raw
                /\ heap = Alloc(<<>>, raw).heap
                /\ result = [r EXCEPT !._raw_response = Alloc(<<>>, raw).at]
    /\ out = Idle
    /\ _XML_CACHE = EmptyDict
    /\ calls = <<>>
    /\ threads = <<>>
    /\ http = <<>>

NextDict == ToDict \/ ChangeReturned

SpecDict == InitDict /\ [][NextDict]_vars

RetainsRaw == result._raw_response # 0

\* C21: to_dict() of a result that retains a raw server response returns a
\* copy, not the same reference: the mapping returned equals the raw response,
\* and no later change to it, at any nesting depth, alters the raw response
\* the result retains or what a later to_dict() returns.
C21_ToDictReturnsIndependentCopy ==
    RetainsRaw =>
        /\ Deep(heap, result._raw_response) = response
        /\ out # Idle =>
              /\ out.ret.val # result._raw_response
              /\ ~out.changed => Deep(heap, out.ret.val) = response

(***************************************************************************)
(* C22: <dispositivo_relacionado> of the hybrid builder.                    *)
(***************************************************************************)
HybridPackage == Returned("to_xml") /\ result.kind = "hybrid"

RelatedOfHybrid == Children(Child(out.ret.val, "contexto_normativo"), "dispositivo_relacionado")

HopCarried(e, node) == HasAttr(e, "hop") /\ Attr(e, "hop") = py_str_int(node.hop)
FreqCarried(e, node) == HasAttr(e, "freq") /\ Attr(e, "freq") = str_int(node.frequency)

DocumentedDeviceTypes ==
    { <<"article">>, <<"paragraph">>, <<"inciso">>, <<"alinea">>, <<"article_consolidated">> }

\* Hits with every combination of device_type, item, paragraph and article;
\* "caput" is a device type the server may send that Metadata does not list.
TipoHits ==
    { [SearchHit(<<"D", "#", "A">>) EXCEPT
          !.md_device_type = dt, !.md_item = it, !.md_paragraph = pg, !.md_article = ar] :
        dt \in DocumentedDeviceTypes \cup {PyNone, <<>>, <<"caput">>},
        it \in {PyNone, <<"III">>}, pg \in {PyNone, <<"1">>}, ar \in {PyNone, <<"33">>} }

TipoResults ==
    {SearchResult(<<h>>, <<>>, <<>>) : h \in TipoHits}
    \cup {HybridResult(<<h>>, <<>>) : h \in TipoHits}

InitTipo == result \in TipoResults /\ out = Idle /\ NothingCalled

NextTipo == \E level \in AcceptedLevels : ToXml(level)

SpecTipo == InitTipo /\ [][NextTipo]_vars

TipoLabels ==
    { <<"artigo">>, <<"paragrafo">>, <<"inciso">>, <<"alinea">>, <<"artigo_consolidado">>,
      <<"dispositivo">> }

LabelOf(device_type) ==
    CASE device_type = <<"article">> -> <<"artigo">>
      [] device_type = <<"paragraph">> -> <<"paragrafo">>
      [] device_type = <<"inciso">> -> <<"inciso">>
      [] device_type = <<"alinea">> -> <<"alinea">>
      [] device_type = <<"article_consolidated">> -> <<"artigo_consolidado">>

InferredLabel(h) ==
    IF Truthy(h.md_item) THEN <<"inciso">>
    ELSE IF Truthy(h.md_paragraph) THEN <<"paragrafo">>
    ELSE IF Truthy(h.md_article) THEN <<"artigo">>
    ELSE <<"dispositivo">>

DispositivosOf(package) == SelectSeq(Descendants(package), LAMBDA e : e.tag = "dispositivo")

\* The tipo of the only <dispositivo> of the package.
TipoEmitted == Attr(DispositivosOf(out.ret.val)[1], "tipo")

OneDispositivo == Returned("to_xml") /\ Len(result.hits) = 1

\* C23 (as stated): for every hit metadata the tipo of <dispositivo> is one of
\* artigo, paragrafo, inciso, alinea, artigo_consolidado, dispositivo: derived
\* from metadata.device_type when that is set, otherwise inferred as inciso,
\* paragrafo or artigo from the presence of item, paragraph or article (in
\* that order), otherwise dispositivo.
C23_TipoIsOneOfSixLabels ==
    OneDispositivo =>
        /\ Len(DispositivosOf(out.ret.val)) = 1
        /\ TipoEmitted \in TipoLabels
        /\ IF Truthy(result.hits[1].md_device_type)
           THEN result.hits[1].md_device_type \in DocumentedDeviceTypes
                   => TipoEmitted = LabelOf(result.hits[1].md_device_type)
           ELSE TipoEmitted = InferredLabel(result.hits[1])

\* C23 (amended): the tipo of <dispositivo> is one of the six labels for every
\* hit metadata whose device_type is unset or one of article, paragraph,
\* inciso, alinea, article_consolidated, derived and inferred as stated; any
\* other device_type is emitted unchanged as the tipo.
C23_TipoIsLabelOrDeviceTypeAsGiven ==
    OneDispositivo =>
        /\ Len(DispositivosOf(out.ret.val)) = 1
        /\ IF Truthy(result.hits[1].md_device_type)
           THEN IF result.hits[1].md_device_type \in DocumentedDeviceTypes
                THEN /\ TipoEmitted = LabelOf(result.hits[1].md_device_type)
                     /\ TipoEmitted \in TipoLabels
                ELSE TipoEmitted = result.hits[1].md_device_type
           ELSE /\ TipoEmitted = InferredLabel(result.hits[1])
                /\ TipoEmitted \in TipoLabels

C23_Witness ==
    /\ OneDispositivo
    /\ result.hits[1].md_device_type = <<>>
    /\ Truthy(result.hits[1].md_item)
    /\ Truthy(result.hits[1].md_article)
    /\ TipoEmitted = <<"inciso">>

(***************************************************************************)
(* Concurrent callers of _get_xml_base.  No lock is taken, so a call is    *)
(* four steps another thread may run between: the membership test, the     *)
(* build of the static part into a local, the store into _XML_CACHE and    *)
(* the final read _XML_CACHE[level].  threads[t] is the frame of thread t. *)
(***************************************************************************)
Threads == 1..MaxThreads

NotReturned == [status |-> "running"]

IdleThread == [pc |-> "idle", level |-> "", base |-> <<>>, ret |-> NotReturned]

\* A thread enters _get_xml_base(level).
ThreadCall(t, level) ==
    /\ threads[t].pc = "idle"
    /\ Len(calls) < MaxCalls
    /\ threads' = [threads EXCEPT ![t] = [pc |-> "check", level |-> level, base |-> <<>>,
                                          ret |-> NotReturned]]
    /\ calls' = Append(calls, level)
    /\ UNCHANGED <<result, out, _XML_CACHE, response, heap, http>>

\* if level not in _XML_CACHE:
ThreadCheck(t) ==
    /\ threads[t].pc = "check"
    /\ threads' = [threads EXCEPT ![t].pc =
                      IF CacheHit(_XML_CACHE, threads[t].level) THEN "return" ELSE "build"]
    /\ UNCHANGED <<result, out, _XML_CACHE, calls, response, heap, http>>

\* _build_xml_base(level), held by the thread
ThreadBuild(t) ==
    /\ threads[t].pc = "build"
    /\ threads' = [threads EXCEPT ![t].pc = "store",
                                  ![t].base = <<_build_xml_base(threads[t].level)>>]
    /\ UNCHANGED <<result, out, _XML_CACHE, calls, response, heap, http>>

\* _XML_CACHE[level] = ...
ThreadStore(t) ==
    /\ threads[t].pc = "store"
    /\ _XML_CACHE' = Put(_XML_CACHE, threads[t].level, threads[t].base[1])
    /\ threads' = [threads EXCEPT ![t].pc = "return"]
    /\ UNCHANGED <<result, out, calls, response, heap, http>>

\* return _XML_CACHE[level]
ThreadReturn(t) ==
    /\ threads[t].pc = "return"
    /\ threads' = [threads EXCEPT ![t].pc = "idle",
                                  ![t].ret = IF threads[t].level \in DOMAIN _XML_CACHE
                                             THEN _XML_CACHE[threads[t].level]
                                             ELSE Raise("KeyError", <<threads[t].level>>)]
    /\ UNCHANGED <<result, out, _XML_CACHE, calls, response, heap, http>>

InitThreads ==
    /\ threads = [t \in Threads |-> IdleThread]
    /\ result = NoResult
    /\ out = Idle
    /\ _XML_CACHE = EmptyDict /\ calls = <<>> /\ response = EmptyDict /\ heap = <<>>
    /\ http = <<>>

NextThreads ==
    \E t \in Threads :
        \/ \E level \in AcceptedLevels : ThreadCall(t, level)
        \/ ThreadCheck(t)
        \/ ThreadBuild(t)
        \/ ThreadStore(t)
        \/ ThreadReturn(t)

SpecThreads == InitThreads /\ [][NextThreads]_vars

ReturnedFrom(t) == threads[t].pc = "idle" /\ threads[t].ret # NotReturned

\* A thread about to store over an entry another thread wrote meanwhile.
LostRace(t) == threads[t].pc = "store" /\ threads[t].level \in DOMAIN _XML_CACHE

\* C24: under every interleaving of concurrent _get_xml_base calls with no
\* lock, each call returns the static scaffolding of the level it was given,
\* a cache entry once written for a level never holds a different value, and
\* a thread that loses the check-then-set race only stores the same string
\* again.
C24_CacheSafeWithoutLock ==
    /\ \A t \in Threads :
          ReturnedFrom(t) => threads[t].ret = _build_xml_base(threads[t].level)
    /\ \A level \in DOMAIN _XML_CACHE : _XML_CACHE[level] = _build_xml_base(level)
    /\ \A t \in Threads : LostRace(t) => threads[t].base[1] = _XML_CACHE[threads[t].level]

\* Both threads found the level missing, one has stored and returned, the
\* other is about to store again.
C24_Witness ==
    /\ LostRace(1)
    /\ ReturnedFrom(2)
    /\ threads[1].level = "full"
    /\ threads[2].level = "full"
    /\ threads[2].ret.status = "return"
    /\ HasChild(threads[2].ret.val, "instrucoes_completas")

(***************************************************************************)
(* Memoized properties of SearchResult (functools.cached_property): the    *)
(* first read computes the value and stores it in the instance __dict__,   *)
(* every later read returns what is stored.  SearchResult is a plain       *)
(* dataclass, so result.hits can be assigned and its list changed.         *)
(***************************************************************************)
TrailName(h) == SourceDocType(h) \o <<" ">> \o SourceDocNum(h) \o <<"/">> \o SourceDocYear(h)

RECURSIVE TrailLoop(_, _)
TrailLoop(hits, trail) ==
    IF hits = <<>> THEN trail
    ELSE TrailLoop(Tail(hits),
                   IF Contains(trail, TrailName(Head(hits))) THEN trail
                   ELSE Append(trail, TrailName(Head(hits))))

_extract_normative_trail(r) == TrailLoop(r.hits, <<>>)

Computed(name, r) ==
    IF name = "confidence" THEN _calculate_confidence(r) ELSE _extract_normative_trail(r)

\* Variant of cached_property that computes at every read.
property(d, name, r) == Computed(name, r)

\* cached_property.__get__: the value read.
cached_property(d, name, r) == IF name \in DOMAIN d THEN d[name] ELSE Computed(name, r)

MemoHits ==
    { [ScoredHit(95) EXCEPT !.md_type = <<"lei">>, !.md_number = <<"14133">>, !.md_year = 2021],
      [ScoredHit(50) EXCEPT !.md_type = <<"in">>, !.md_number = <<"65">>, !.md_year = 2021] }

\* A SearchResult with its instance __dict__ of memoized values.
MemoResult(hits) ==
    [f \in DOMAIN SearchResult(hits, <<>>, <<>>) \cup {"__dict__"} |->
        IF f = "__dict__" THEN EmptyDict ELSE SearchResult(hits, <<>>, <<>>)[f]]

MemoProperties == {"confidence", "normative_trail"}

\* result.confidence / result.normative_trail
ReadProperty(name) ==
    /\ out' = [op |-> name, ret |-> Return(cached_property(result["__dict__"], name, result))]
    /\ result' = [result EXCEPT !["__dict__"] =
                     Put(@, name, cached_property(result["__dict__"], name, result))]
    /\ calls' = IF name \in DOMAIN result["__dict__"] THEN calls
                ELSE Append(calls, [op |-> name, hits |-> result.hits])
    /\ UNCHANGED <<_XML_CACHE, response, heap, threads, http>>

\* result.hits = hits, result.hits.append(hit), del result.hits[i], ...
ChangeHits(hits) ==
    /\ hits # result.hits
    /\ result' = [result EXCEPT !.hits = hits]
    /\ out' = [op |-> "hits", ret |-> ReturnNone]
    /\ UNCHANGED <<_XML_CACHE, calls, response, heap, threads, http>>

InitMemo ==
    /\ result \in {MemoResult(hs) : hs \in SeqsUpTo(MemoHits, MaxHits)}
    /\ out = Idle
    /\ NothingCalled

NextMemo ==
    \/ \E name \in MemoProperties : ReadProperty(name)
    \/ \E hs \in SeqsUpTo(MemoHits, MaxHits) : ChangeHits(hs)
    \/ \E level \in AcceptedLevels : ToXml(level)

SpecMemo == InitMemo /\ [][NextMemo]_vars

\* The text to_xml writes in <consulta>/<confianca_global> for the result.
ConfiancaGlobal(r) == Child(Child(to_xml(r, "data").val, "consulta"), "confianca_global").text

\* C25 (as stated): at every point of a SearchResult's life, after any
\* sequence of reads of result.confidence or result.normative_trail, changes
\* to result.hits and builder calls, result.confidence equals the value to_xml
\* writes in <confianca_global> and result.normative_trail equals
\* _extract_normative_trail of the current hits.
C25_MemoizedNeverStale ==
    /\ Fmt4(cached_property(result["__dict__"], "confidence", result)) = ConfiancaGlobal(result)
    /\ cached_property(result["__dict__"], "normative_trail", result)
          = _extract_normative_trail(result)

\* The hits the result had when the property was first read.
HitsAtFirstRead(name) == (CHOOSE c \in Range(calls) : c.op = name).hits

\* C25 (amended): once read, result.confidence and result.normative_trail
\* keep the value computed from the hits the result had at that first read,
\* whatever changes are made to result.hits afterwards; result.confidence
\* equals the value to_xml writes in <confianca_global>, and
\* result.normative_trail equals _extract_normative_trail of the current hits,
\* as long as the property has not been read yet or result.hits is what it
\* was at the first read.
C25_MemoizedAtFirstRead ==
    \A name \in MemoProperties :
        /\ name \in DOMAIN result["__dict__"] =>
              /\ \E c \in Range(calls) : c.op = name
              /\ cached_property(result["__dict__"], name, result)
                    = Computed(name, [result EXCEPT !.hits = HitsAtFirstRead(name)])
        /\ (name \notin DOMAIN result["__dict__"] \/ HitsAtFirstRead(name) = result.hits) =>
              IF name = "confidence"
              THEN Fmt4(cached_property(result["__dict__"], name, result)) = ConfiancaGlobal(result)
              ELSE cached_property(result["__dict__"], name, result)
                      = _extract_normative_trail(result)

\* confidence was read with one strong hit (0.95 * 0.8 + 0.05), then a hit was
\* added: the property still reads 0.81 while to_xml writes another value.
C25_Witness ==
    /\ out.op = "confidence"
    /\ "confidence" \in DOMAIN result["__dict__"]
    /\ Len(HitsAtFirstRead("confidence")) = 1
    /\ Len(result.hits) = 2
    /\ out.ret.val = 8100
    /\ ConfiancaGlobal(result) # Fmt4(8100)

(***************************************************************************)
(* HTTPClient.request (_http.py).  http is the client and the frame of the *)
(* request in progress: _conn the pooled connection (open or none),        *)
(* attempt the loop variable, sent the conn.request calls made, last what  *)
(* the last of them met.  One step is one iteration of the retry loop.     *)
(* The server and the network choose what each request meets: a response   *)
(* (status, kind of body, Retry-After header) or an exception of           *)
(* http.client / the socket.                                               *)
(***************************************************************************)
_RETRIABLE_STATUS_CODES == {429, 500, 502, 503, 504}

\* response.status in _RETRIABLE_STATUS_CODES
Retriable(status) == status \in _RETRIABLE_STATUS_CODES

\* HTTPClient(max_retries=3)
DefaultMaxRetries == 3

\* The classes an exception class derives from.  The errors of
\* vectorgov.exceptions derive from VectorGovError and from no error of the
\* standard library.
ExceptionBases(class) ==
    CASE class \in {"RemoteDisconnected", "BrokenPipeError", "socket.timeout"} -> {"OSError"}
      [] class = "CannotSendRequest" -> {"HTTPException"}
      [] class = "IncompleteRead" -> {"HTTPException"}
      [] class = "JSONDecodeError" -> {"ValueError"}
      [] class \in {"AuthError", "TierError", "RateLimitError", "ValidationError",
                    "ServerError", "ConnectionError", "TimeoutError"} -> {"VectorGovError"}
      [] OTHER -> {}

Caught(class, handled) == class \in handled \/ ExceptionBases(class) \cap handled # {}

\* except (RemoteDisconnected, CannotSendRequest, BrokenPipeError, OSError)
ConnectionBroke(class) ==
    Caught(class, {"RemoteDisconnected", "CannotSendRequest", "BrokenPipeError", "OSError"})

\* except TimeoutError (the one of vectorgov.exceptions)
TimedOut(class) == Caught(class, {"TimeoutError"})

\* Bodies: a JSON object, another JSON value (list, string, number, null),
\* or text that is not JSON (an HTML error page).
BodyKinds == {"object", "value", "text"}

\* HTTPClient._handle_error: the exception raised.  json.loads of a JSON value
\* that is not an object gives no dict, and error_data.get raises
\* AttributeError before any status is looked at.
_handle_error(status_code, body) ==
    IF body = "value" THEN Raise("AttributeError", <<"get">>)
    ELSE Raise(CASE status_code = 401 -> "AuthError"
                 [] status_code = 403 -> "TierError"
                 [] status_code = 429 -> "RateLimitError"
                 [] status_code = 400 -> "ValidationError"
                 [] status_code >= 500 -> "ServerError"
                 [] OTHER -> "VectorGovError",
               <<body>>)

\* The delay slept before a retry: Retry-After of a 429 when it is a number
\* other than 0, else the backoff.  time.sleep raises ValueError for a
\* negative delay.
SleepRaises(status, retry_after) == status = 429 /\ retry_after = "-1"

Response(status, body, retry_after) ==
    [kind |-> "response", status |-> status, body |-> body, retry_after |-> retry_after,
     exc |-> ""]
Failure(exc) ==
    [kind |-> "failure", status |-> 0, body |-> "", retry_after |-> "", exc |-> exc]
NoOutcome == [kind |-> "none", status |-> 0, body |-> "", retry_after |-> "", exc |-> ""]

Statuses == {200, 204, 301, 400, 401, 403, 404, 429, 500, 501, 502, 503, 504}

Outcomes ==
    {Response(st, b, "absent") : st \in Statuses, b \in BodyKinds}
    \cup {Response(429, b, ra) : b \in BodyKinds, ra \in {"2", "soon", "-1"}}
    \cup {Failure(e) : e \in {"RemoteDisconnected", "CannotSendRequest", "BrokenPipeError",
                              "socket.timeout", "IncompleteRead"}}

\* client.request(method, path, max_retries=...): NoInt is None.
Request(max_retries) ==
    /\ http.pc # "loop"
    /\ Len(calls) < MaxCalls
    /\ http' = [http EXCEPT !.pc = "loop", !.attempt = 0, !.sent = 0, !.last = NoOutcome,
                            !.req_retries = IF max_retries # NoInt THEN max_retries
                                            ELSE http.max_retries,
                            !.last_error = "", !.last_error_body = FALSE]
    /\ out' = [op |-> "request", ret |-> NotReturned]
    /\ calls' = Append(calls, max_retries)
    /\ UNCHANGED <<result, _XML_CACHE, response, heap, threads>>

Finish(ret, o) ==
    /\ http' = [http EXCEPT !.pc = "done", !._conn = "open", !.sent = @ + 1, !.last = o]
    /\ out' = [op |-> "request", ret |-> ret]

Continue(o, conn, last_error, last_error_body) ==
    /\ http' = [http EXCEPT !.attempt = @ + 1, !._conn = conn, !.sent = @ + 1, !.last = o,
                            !.last_error = last_error, !.last_error_body = last_error_body]
    /\ out' = out

\* One iteration of "for attempt in range(req_retries)": _get_conn (which
\* opens the connection when there is none), conn.request, getresponse, read.
Attempt(o) ==
    /\ http.pc = "loop"
    /\ http.attempt < http.req_retries
    /\ IF o.kind = "failure"
       THEN IF ConnectionBroke(o.exc)
            THEN Continue(o, "none", "ConnectionError", http.last_error_body)
            ELSE IF TimedOut(o.exc)
            THEN Continue(o, "none", "TimeoutError", http.last_error_body)
            ELSE Finish(Raise(o.exc, <<>>), o)
       ELSE IF 200 <= o.status /\ o.status < 300
            THEN Finish(IF o.body = "text" THEN Raise("JSONDecodeError", <<>>)
                        ELSE Return(o.body), o)
       ELSE IF Retriable(o.status) /\ http.attempt < http.req_retries - 1
            THEN IF SleepRaises(o.status, o.retry_after)
                 THEN Finish(Raise("ValueError", <<"sleep length must be non-negative">>), o)
                 ELSE Continue(o, "open", http.last_error, TRUE)
       ELSE IF ConnectionBroke(_handle_error(o.status, o.body).exc.type)
            THEN Continue(o, "none", "ConnectionError", http.last_error_body)
       ELSE Finish(_handle_error(o.status, o.body), o)
    /\ UNCHANGED <<result, _XML_CACHE, calls, response, heap, threads>>

\* After the loop: the last connection error, else the mapped 500, else the
\* "unknown error".
AfterLoop ==
    /\ http.pc = "loop"
    /\ http.attempt >= http.req_retries
    /\ http' = [http EXCEPT !.pc = "done"]
    /\ out' = [op |-> "request",
               ret |-> IF http.last_error # "" THEN Raise(http.last_error, <<>>)
                       ELSE IF http.last_error_body THEN _handle_error(500, "object")
                       ELSE Raise("VectorGovError", <<"Erro desconhecido na requisicao">>)]
    /\ UNCHANGED <<result, _XML_CACHE, calls, response, heap, threads>>

InitRequest ==
    /\ http = [pc |-> "idle", max_retries |-> DefaultMaxRetries, _conn |-> "none",
               attempt |-> 0, req_retries |-> 0, sent |-> 0, last |-> NoOutcome,
               last_error |-> "", last_error_body |-> FALSE]
    /\ result = NoResult
    /\ out = Idle
    /\ _XML_CACHE = EmptyDict /\ calls = <<>> /\ response = EmptyDict
    /\ heap = <<>> /\ threads = <<>>

NextRequest ==
    \/ \E max_retries \in {NoInt} \cup 0..MaxRetries : Request(max_retries)
    \/ \E o \in Outcomes : Attempt(o)
    \/ AfterLoop

SpecRequest == InitRequest /\ [][NextRequest]_vars

\* The error the claim maps a status to.
MappedError(status) ==
    CASE status = 401 -> "AuthError"
      [] status = 403 -> "TierError"
      [] status = 400 -> "ValidationError"
      [] status = 429 -> "RateLimitError"
      [] status >= 500 -> "ServerError"
      [] OTHER -> "VectorGovError"

RequestDone == http.pc = "done" /\ out.op = "request"

\* C26: HTTPClient.request ends after at most max_retries iterations and
\* sends at most max_retries HTTP requests; it sends a further request only
\* after a response with status 429, 500, 502, 503 or 504 or after a
\* connection failure, the pooled connection being reset first; a 2xx
\* response is returned at once, and any other status raises its mapped error
\* at once with no further request.
C26_RequestRetriesBounded ==
    /\ http.attempt <= http.req_retries
    /\ http.sent <= http.req_retries
    /\ (http.pc = "loop" /\ http.sent >= 1 /\ http.attempt < http.req_retries) =>
          \/ http.last.kind = "response" /\ http.last.status \in {429, 500, 502, 503, 504}
          \/ http.last.kind = "failure" /\ http._conn = "none"
    /\ (RequestDone /\ http.last.kind = "response") =>
          IF 200 <= http.last.status /\ http.last.status < 300
          THEN out.ret.status = "return"
          ELSE http.last.status \notin {429, 500, 502, 503, 504} =>
                  /\ out.ret.status = "raise"
                  /\ out.ret.exc.type = MappedError(http.last.status)


(***************************************************************************)
(* The lookup whitelist against the lookup hierarchy.                      *)
(***************************************************************************)
\* The id attributes of <artigo_pai>, <dispositivo_principal> and every
\* <irmao> of a <hierarquia_normativa>.
HierarquiaIds(hier) ==
    {Attr(e, "id") : e \in {d \in Range(Descendants(hier)) :
                               /\ d.tag \in {"artigo_pai", "dispositivo_principal", "irmao"}
                               /\ HasAttr(d, "id")}}

LookupFullPackage == FullPackage /\ result.kind = "lookup"

\* C27: in every lookup package at level 'full', <dispositivos_autorizados>
\* is emitted only together with <hierarquia_normativa>, and every ID of the
\* whitelist is the id of an element emitted inside that hierarchy.
C27_LookupWhitelistInsideHierarchy ==
    (LookupFullPackage /\ XmlWhitelistPresent(out.ret.val)) =>
        /\ HasChild(out.ret.val, "hierarquia_normativa")
        /\ \A i \in 1..Len(XmlWhitelist(out.ret.val)) :
              XmlWhitelist(out.ret.val)[i]
                 \in HierarquiaIds(Child(out.ret.val, "hierarquia_normativa"))

\* The part of C27 that the code keeps: when the status is 'found'.
LookupWhitelistInsideHierarchyWhenFound ==
    (LookupFullPackage /\ XmlWhitelistPresent(out.ret.val) /\ result.status = "found") =>
        /\ HasChild(out.ret.val, "hierarquia_normativa")
        /\ \A i \in 1..Len(XmlWhitelist(out.ret.val)) :
              XmlWhitelist(out.ret.val)[i]
                 \in HierarquiaIds(Child(out.ret.val, "hierarquia_normativa"))


(***************************************************************************)
(* Grouping and sorting keep every hit.                                    *)
(***************************************************************************)
\* The (tipo, lei) attributes of the <fonte> of a hit's own key.
OwnFonte(h) ==
    << IF h.md_type = <<>> THEN <<"DOC">> ELSE upper(h.md_type),
       (IF h.md_number = <<>> THEN <<"?">> ELSE h.md_number)
       \o <<"/">>
       \o (IF h.md_year = 0 THEN <<"?">> ELSE str_int(h.md_year)) >>

\* Every <dispositivo> of the package as <<index of its <fonte>, index in it>>.
PlacedDispositivos ==
    {<<g, k>> \in (1..Len(GroupsOfOutput)) \X (1..Len(result.hits)) :
        k <= Len(GroupsOfOutput[g].members)}

\* C28: in every search or hybrid package the <dispositivo> elements across
\* all <fonte> groups correspond one-to-one to the result's hits (none
\* dropped, none duplicated), and each hit stands in the <fonte> of its own
\* (type, number, year) key.
C28_EveryHitOnceInItsOwnFonte ==
    (Returned("to_xml") /\ SearchOrHybrid) =>
        /\ \A g \in 1..Len(GroupsOfOutput) :
              Len(GroupsOfOutput[g].members) <= Len(result.hits)
        /\ Cardinality(PlacedDispositivos) = Len(result.hits)
        /\ \A h \in Range(result.hits) :
              Cardinality({p \in PlacedDispositivos :
                              GroupsOfOutput[p[1]].members[p[2]] = h.text})
                = Cardinality({i \in 1..Len(result.hits) : result.hits[i] = h})
        /\ \A p \in PlacedDispositivos :
              LET h == HitOfText(GroupsOfOutput[p[1]].members[p[2]])
              IN  <<GroupsOfOutput[p[1]].tipo, GroupsOfOutput[p[1]].lei>> = OwnFonte(h)

\* Three hits of two sources, one of them twice, the sources interleaved.
C28_Witness ==
    /\ Returned("to_xml") /\ result.kind = "hybrid"
    /\ Len(result.hits) = 3
    /\ result.hits[1] = result.hits[3]
    /\ OwnFonte(result.hits[1]) # OwnFonte(result.hits[2])
    /\ Len(GroupsOfOutput) = 2
    /\ Len(GroupsOfOutput[1].members) = 2
    /\ Len(GroupsOfOutput[2].members) = 1


(***************************************************************************)
(* The confidence against the order of the hits.                           *)
(***************************************************************************)
Orderings(hits) ==
    {[i \in 1..Len(hits) |-> hits[f[i]]] :
        f \in {g \in [1..Len(hits) -> 1..Len(hits)] :
                  \A a, b \in 1..Len(hits) : g[a] = g[b] => a = b}}

HighestScore(hits) ==
    CHOOSE s \in {hits[i].score : i \in 1..Len(hits)} :
        \A i \in 1..Len(hits) : hits[i].score <= s

\* The formula with the bonus given for the highest score, as the fraction
\* num/FormulaDen of 1/10000 units.
HighestNum(hits) ==
    LET average == 100 * SumOf(hits, 3)
        scaled == IF Len(hits) < 2 THEN 4 * average ELSE 5 * average
        bonus == IF HighestScore(hits) > 90 THEN 500 * FormulaDen(hits) ELSE 0
    IN  Min(10000 * FormulaDen(hits), Max(0, scaled + bonus))

\* C29: _calculate_confidence gives the same value for every ordering of
\* the same hits, and the 0.05 bonus is applied exactly when the highest
\* score among the hits exceeds 0.9, wherever that hit stands in the list.
C29_ConfidenceIgnoresOrder ==
    (out.op = "confidence" /\ result.hits # <<>> /\ ~AllScoresZero(result.hits)) =>
        /\ \A hits \in Orderings(result.hits) :
              _calculate_confidence(SearchResult(hits, <<>>, <<>>)) = out.ret.val
        /\ 2 * Abs(out.ret.val * FormulaDen(result.hits) - HighestNum(result.hits))
              <= FormulaDen(result.hits)

\* The same with the strongest hit in the first place.
ConfidenceIgnoresOrderBehindTopHit ==
    (/\ out.op = "confidence" /\ result.hits # <<>> /\ ~AllScoresZero(result.hits)
     /\ result.hits[1].score = HighestScore(result.hits)) =>
        /\ \A hits \in Orderings(result.hits) :
              hits[1].score = HighestScore(result.hits) =>
                  _calculate_confidence(SearchResult(hits, <<>>, <<>>)) = out.ret.val
        /\ 2 * Abs(out.ret.val * FormulaDen(result.hits) - HighestNum(result.hits))
              <= FormulaDen(result.hits)


(***************************************************************************)
(* SearchResult.to_context: the plain-text context and its max_chars       *)
(* budget.  A string is a sequence of fragments whose characters count:    *)
(* len(s) is the sum of the fragments' lengths (accented letters are       *)
(* written unaccented, one character for one).                             *)
(***************************************************************************)
RECURSIVE py_len(_)
py_len(s) == IF s = <<>> THEN 0 ELSE Len(Head(s)) + py_len(Tail(s))

header_direct == <<"=== EVIDENCIA DIRETA (resultados da busca) ===">>
separator == <<"\n", "=== TRECHOS CITADOS (expansao por citacao) ===">>

DictGet(d, k, default) == IF k \in DOMAIN d THEN d[k] ELSE default

\* entry of hit number i.
HitEntry(i, hit) ==
    <<"[">> \o str_int(i) \o <<"] ">> \o hit.source \o <<"\n">> \o hit.text
    \o (IF Truthy(hit.nota_especialista)
        THEN <<"\n[Nota do Especialista]: ">> \o hit.nota_especialista ELSE <<>>)
    \o (IF Truthy(hit.jurisprudencia_tcu)
        THEN <<"\n[Jurisprudencia TCU]: ">> \o hit.jurisprudencia_tcu
             \o (IF Truthy(hit.acordao_tcu_link)
                 THEN <<"\n[Link Acordao]: ">> \o hit.acordao_tcu_link ELSE <<>>)
        ELSE <<>>)
    \o <<"\n">>

\* entry of expanded chunk number j (a raw dict of the API).
ChunkEntry(j, ec) ==
    Join(<<"\n">>,
         << <<"[XC-">> \o str_int(j) \o <<"] TRECHO CITADO (expansao por citacao)">>,
            <<"  CITADO POR: ">> \o OrElse(Get(ec, "source_chunk_id"), <<"(origem nao informada)">>),
            <<"  CITACAO ORIGINAL: ">>
               \o OrElse(Get(ec, "source_citation_raw"), <<"(citacao nao informada)">>),
            <<"  ALVO (node_id): ">> \o OrElse(Get(ec, "node_id"), <<"(node_id nao informado)">>),
            <<"  FONTE: ">> \o DictGet(ec, "document_id", <<>>) \o <<", ">>
               \o DictGet(ec, "span_id", <<>>) \o <<" (">>
               \o OrElse(Get(ec, "device_type"), <<"unknown">>) \o <<")">>,
            DictGet(ec, "text", <<>>),
            <<>> >>)

StatsLine(stats) ==
    <<"\n[Expansao: encontradas=">> \o str_int(DictGet(stats, "citations_scanned_count", 0))
    \o <<", resolvidas=">> \o str_int(DictGet(stats, "citations_resolved_count", 0))
    \o <<", expandidas=">> \o str_int(DictGet(stats, "expanded_chunks_count", 0))
    \o <<", tempo=">> \o str_int(DictGet(stats, "expansion_time_ms", 0)) \o <<"ms]">>

\* `max_chars and total_chars + len(entry) > max_chars`: max_chars is <<>>
\* for None, else <<n>>.
OverBudget(max_chars, total_chars, entry) ==
    max_chars # <<>> /\ max_chars[1] # 0 /\ total_chars + py_len(entry) > max_chars[1]

\* The loops keep [parts, total_chars] and stop at the first entry over budget.
RECURSIVE HitsLoop(_, _, _, _)
HitsLoop(hits, i, max_chars, st) ==
    IF i > Len(hits) THEN st
    ELSE IF OverBudget(max_chars, st.total_chars, HitEntry(i, hits[i])) THEN st
    ELSE HitsLoop(hits, i + 1, max_chars,
                  [parts |-> Append(st.parts, HitEntry(i, hits[i])),
                   total_chars |-> st.total_chars + py_len(HitEntry(i, hits[i]))])

RECURSIVE ChunksLoop(_, _, _, _)
ChunksLoop(chunks, j, max_chars, st) ==
    IF j > Len(chunks) THEN st
    ELSE IF OverBudget(max_chars, st.total_chars, ChunkEntry(j, chunks[j])) THEN st
    ELSE ChunksLoop(chunks, j + 1, max_chars,
                    [parts |-> Append(st.parts, ChunkEntry(j, chunks[j])),
                     total_chars |-> st.total_chars + py_len(ChunkEntry(j, chunks[j]))])

StatsLineFits(max_chars, total_chars, line) ==
    max_chars = <<>> \/ max_chars[1] = 0 \/ total_chars + py_len(line) <= max_chars[1]

to_context(r, max_chars, include_expanded, include_stats) ==
    LET direct == HitsLoop(r.hits, 1, max_chars,
                           [parts |-> <<header_direct>>,
                            total_chars |-> py_len(header_direct) + 1])
        cited == ChunksLoop(r.expanded_chunks, 1, max_chars,
                            [parts |-> Append(direct.parts, separator),
                             total_chars |-> direct.total_chars + py_len(separator) + 1])
        stats == include_stats /\ DictTruthy(r.expansion_stats)
                 /\ StatsLineFits(max_chars, cited.total_chars, StatsLine(r.expansion_stats))
        parts == IF include_expanded /\ r.expanded_chunks # <<>>
                 THEN IF stats THEN Append(cited.parts, StatsLine(r.expansion_stats))
                      ELSE cited.parts
                 ELSE direct.parts
    IN  Join(<<"\n">>, parts)

ContextHit(source, text, nota, juris, link) ==
    [source |-> source, text |-> text, nota_especialista |-> nota,
     jurisprudencia_tcu |-> juris, acordao_tcu_link |-> link]

ContextHits ==
    { ContextHit(<<"Lei 1">>, <<"aaaaaaaaaa">>, PyNone, PyNone, PyNone),
      ContextHit(<<"Lei 2">>, <<"bbbbbbbbbbbbbbbbbbbb">>, <<"nota">>, PyNone, PyNone),
      ContextHit(<<"IN 3">>, <<"cc">>, PyNone, <<"Acordao 1">>, <<"http://x">>) }

ContextChunks ==
    { EmptyDict,
      [k \in {"source_chunk_id", "node_id", "document_id", "span_id", "text"} |->
          CASE k = "source_chunk_id" -> <<"D#A">>
            [] k = "node_id" -> <<"leis:D#B">>
            [] k = "document_id" -> <<"D">>
            [] k = "span_id" -> <<"B">>
            [] k = "text" -> <<"dddddddddd">>] }

ContextStats ==
    { EmptyDict,
      [k \in {"citations_scanned_count", "expansion_time_ms"} |->
          IF k = "citations_scanned_count" THEN 3 ELSE 12] }

ContextResults ==
    {[kind |-> "search", hits |-> hs, expanded_chunks |-> ex, expansion_stats |-> es] :
        hs \in SeqsUpTo(ContextHits, MaxHits),
        ex \in SeqsUpTo(ContextChunks, MaxExpanded),
        es \in ContextStats}

\* max_chars values: None, 0, below the header, the header alone, one and
\* two entries of the first hit to the character, and room for everything.
MaxCharsInputs == {<<>>, <<0>>, <<10>>, <<46>>, <<47>>, <<68>>, <<89>>, <<90>>, <<2000>>}

ToContext(max_chars, include_expanded, include_stats) ==
    /\ out = Idle
    /\ out' = [op |-> "to_context", max_chars |-> max_chars,
               ret |-> Return(to_context(result, max_chars, include_expanded, include_stats))]
    /\ UNCHANGED <<result, _XML_CACHE, calls, response, heap, threads, http>>

InitContext == result \in ContextResults /\ out = Idle /\ NothingCalled

NextContext ==
    \E max_chars \in MaxCharsInputs, include_expanded \in BOOLEAN, include_stats \in BOOLEAN :
        ToContext(max_chars, include_expanded, include_stats)

SpecContext == InitContext /\ [][NextContext]_vars

\* Where the entry of hit number i starts in a context string, 0 if nowhere.
EntryAt(text, i) ==
    LET tag == <<"[">> \o str_int(i) \o <<"] ">> \o result.hits[i].source
               \o <<"\n">> \o result.hits[i].text
        at == {p \in 1..(Len(text) - Len(tag) + 1) : SubSeq(text, p, p + Len(tag) - 1) = tag}
    IN  IF at = {} THEN 0 ELSE CHOOSE p \in at : \A q \in at : p <= q

\* The hits of a context string are the first k hits of the list, in order.
HitsArePrefix(text) ==
    \E k \in 0..Len(result.hits) :
        /\ \A i \in 1..Len(result.hits) : (EntryAt(text, i) # 0) <=> (i <= k)
        /\ \A i, j \in 1..k : i < j => EntryAt(text, i) < EntryAt(text, j)

BudgetedContext == out.op = "to_context" /\ out.max_chars # <<>>

\* C30: for every SearchResult and every max_chars value N that is not None,
\* to_context(max_chars=N) returns a string of at most N characters, and the
\* hits it includes are a prefix of the hit list in order.
C30_ContextWithinMaxChars ==
    BudgetedContext =>
        /\ py_len(out.ret.val) <= out.max_chars[1]
        /\ HitsArePrefix(out.ret.val)

\* The part of C30 that the code keeps: the included hits are a prefix.
ContextHitsArePrefix == out.op = "to_context" => HitsArePrefix(out.ret.val)

====
